---- MODULE Spec2Model ----
(***************************************************************************)
(* openapi-db: expression helpers, database adapters, route matcher and    *)
(* router request lifecycle.                                               *)
(*                                                                         *)
(* JavaScript strings are sequences of one-character strings; positions    *)
(* are 0-based as in the source.  JavaScript values are records            *)
(* [t, k, v]: t the type tag, k the key list of an object, v the payload.  *)
(***************************************************************************)
EXTENDS Integers, Sequences, FiniteSets, TLC

VARIABLES
    mode,       \* flat: how the template under test is being built
    template,   \* flat: string template handed to interpolate
    pieces,     \* flat: the pieces the template was built from
    ctxA,       \* flat/mongo: first request context
    ctxB,       \* flat/mongo: second request context
    phase,      \* flat/mongo: "build" until interpolate ran, then "done"
    pgA,        \* flat: PgAdapter.interpolate(template, ctxA)
    pgB,        \* flat: PgAdapter.interpolate(template, ctxB)
    myA,        \* flat: MysqlAdapter.interpolate(template, ctxA)
    myB,        \* flat: MysqlAdapter.interpolate(template, ctxB)
    mq,         \* mongo: structured query template
    mgA,        \* mongo: MongoAdapter.interpolate(mq, ctxA)
    mgB,        \* mongo: MongoAdapter.interpolate(mq, ctxB)
    paths,      \* router: options.spec.paths, the path items of the OpenAPI document
    adapters,   \* router: options.adapters, the configured adapters in key order
    auth,       \* router: TRUE iff options.auth, the auth resolver, is configured
    routes,     \* router: compiled routes (RouterImpl.routes)
    boot,       \* router: [t |-> "config"], [t |-> "ready"] or the error thrown
    req,        \* router: the request being handled
    pc,         \* router: suspension point of handle() for the current request
    route,      \* router: index of the matched route, 0 when none
    matched,    \* router: pathParams, the decoded captures of the match
    authContext,\* router: what the auth resolver returned, null before
    context,    \* router: Context built for the current request
    artifact,   \* router: result of adapter.interpolate
    engine,     \* router: what the database engine answered to execute
    rows,       \* router: rows returned by adapter.execute
    outcome,    \* router: what handle() returned or threw
    trace,      \* router: steps handle() has entered for the current request
    helperInput, \* helpers: the expression text handed to a template helper
    helperOutput, \* helpers: the helper called and what it returned
    inflight    \* pair: the calls of handle() in flight together, one per slot

flatVars  == <<mode, template, pieces, pgA, pgB, myA, myB>>
ctxVars   == <<ctxA, ctxB, phase>>
mongoVars == <<mq, mgA, mgB>>
routerVars == <<paths, adapters, auth, routes, boot, req, pc, route,
                matched, authContext, context, artifact, engine, rows,
                outcome, trace, inflight>>
helperVars == <<helperInput, helperOutput>>
vars == <<flatVars, ctxVars, mongoVars, routerVars, helperVars>>

-----------------------------------------------------------------------------
(* JavaScript string primitives                                            *)

Min(a, b) == IF a < b THEN a ELSE b
Max(a, b) == IF a > b THEN a ELSE b

\* s[i] : the character at 0-based index i, "" standing for undefined
CharAt(s, i) == IF i >= 0 /\ i < Len(s) THEN s[i + 1] ELSE ""

\* s.slice(a, b) with non-negative arguments
Slice(s, a, b) == SubSeq(s, Min(Max(a, 0), Len(s)) + 1, Min(Max(b, 0), Len(s)))

\* s.slice(a)
SliceFrom(s, a) == Slice(s, a, Len(s))

\* s.startsWith(p, i)
StartsWithAt(s, p, i) == Slice(s, i, i + Len(p)) = p

\* s.endsWith(p)
EndsWith(s, p) == Len(s) >= Len(p) /\ SliceFrom(s, Len(s) - Len(p)) = p

\* s.indexOf(p, from), -1 when absent
RECURSIVE IndexOf(_, _, _)
IndexOf(s, p, from) ==
    IF from + Len(p) > Len(s) THEN -1
    ELSE IF StartsWithAt(s, p, from) THEN from
    ELSE IndexOf(s, p, from + 1)

Includes(s, p) == IndexOf(s, p, 0) # -1

IsSpace(c) == c \in {" "}

RECURSIVE TrimStart(_)
TrimStart(s) == IF s # <<>> /\ IsSpace(Head(s)) THEN TrimStart(Tail(s)) ELSE s

RECURSIVE TrimEnd(_)
TrimEnd(s) ==
    IF s # <<>> /\ IsSpace(s[Len(s)]) THEN TrimEnd(SubSeq(s, 1, Len(s) - 1)) ELSE s

\* s.trim()
Trim(s) == TrimEnd(TrimStart(s))

\* s.split(sep) for a one-character separator
RECURSIVE Split(_, _)
Split(s, sep) ==
    LET i == IndexOf(s, <<sep>>, 0)
    IN  IF i = -1 THEN <<s>>
        ELSE <<Slice(s, 0, i)>> \o Split(SliceFrom(s, i + 1), sep)

\* \w of a regular expression
Digits == {"0", "1", "2", "3", "4", "5", "6", "7", "8", "9"}
Letters == {"a", "b", "c", "d", "e", "f", "g", "h", "i", "j", "k", "l", "m",
            "n", "o", "p", "q", "r", "s", "t", "u", "v", "w", "x", "y", "z",
            "A", "B", "C", "D", "E", "F", "G", "H", "I", "J", "K", "L", "M",
            "N", "O", "P", "Q", "R", "S", "T", "U", "V", "W", "X", "Y", "Z"}
IsWordChar(c) == c \in Letters \cup Digits \cup {"_"}

\* number of leading \w characters of s
RECURSIVE WordPrefixLen(_)
WordPrefixLen(s) ==
    IF s # <<>> /\ IsWordChar(Head(s)) THEN 1 + WordPrefixLen(Tail(s)) ELSE 0

\* String(n) for a non-negative integer n
DigitChar(d) == CASE d = 0 -> "0" [] d = 1 -> "1" [] d = 2 -> "2" [] d = 3 -> "3"
                  [] d = 4 -> "4" [] d = 5 -> "5" [] d = 6 -> "6" [] d = 7 -> "7"
                  [] d = 8 -> "8" [] d = 9 -> "9"

RECURSIVE NumberToString(_)
NumberToString(n) ==
    IF n < 10 THEN <<DigitChar(n)>>
    ELSE NumberToString(n \div 10) \o <<DigitChar(n % 10)>>

\* concatenation of a sequence of strings
RECURSIVE Join(_)
Join(ss) == IF ss = <<>> THEN <<>> ELSE Head(ss) \o Join(Tail(ss))

-----------------------------------------------------------------------------
(* JavaScript values                                                       *)

Undefined == [t |-> "undefined", k |-> <<>>, v |-> <<>>]
Null == [t |-> "null", k |-> <<>>, v |-> <<>>]
Str(s) == [t |-> "string", k |-> <<>>, v |-> s]
Num(s) == [t |-> "number", k |-> <<>>, v |-> s]
Arr(items) == [t |-> "array", k |-> <<>>, v |-> items]
Obj(keys, vals) == [t |-> "object", k |-> keys, v |-> vals]
DateNow == [t |-> "date", k |-> <<>>, v |-> <<>>]
False == [t |-> "boolean", k |-> <<>>, v |-> <<"f", "a", "l", "s", "e">>]
Uuid == [t |-> "string", k |-> <<>>, v |-> <<"u", "u", "i", "d">>]
\* a thrown error: kind is the error class, message the identifier the
\* message names (or empty), details the wrapped original error
Error(kind, code, message, status, details) ==
    [t |-> "throw", k |-> <<>>, v |-> <<kind, code, status, message, details>>]
ErrKind(e) == e.v[1]
ErrCode(e) == e.v[2]
ErrStatus(e) == e.v[3]
ErrMessage(e) == e.v[4]
ErrDetails(e) == e.v[5]
DefaultStatus == 500
\* new OpenApiDbError(code, message, status, details)
OpenApiDbError(code, message, status, details) ==
    Error("OpenApiDbError", code, message, status, details)
\* an error of another class (Error, URIError, TypeError, a driver error)
NativeError(kind) == Error(kind, "", <<>>, 0, [t |-> "undefined", k |-> <<>>, v |-> <<>>])
IsOpenApiDbError(e) == e.t = "throw" /\ ErrKind(e) = "OpenApiDbError"

IsThrow(x) == x.t = "throw"
IsNullish(x) == x.t \in {"undefined", "null"}

\* value[segment] : property access of resolveVariable
GetProp(value, segment) ==
    IF value.t = "object" /\ \E i \in 1..Len(value.k) : value.k[i] = segment
    THEN value.v[CHOOSE i \in 1..Len(value.k) : value.k[i] = segment]
    ELSE Undefined


-----------------------------------------------------------------------------
(* helpers.ts: parseTemplate, resolveVariable, evaluateFunction            *)

OPEN_DELIM == <<"$", "{", "{">>
CLOSE_DELIM == <<"}", "}">>

\* the inner while loop of findClosingDelimiter: position of the closing
\* quote of a literal (or the end of the template)
RECURSIVE SkipLiteral(_, _)
SkipLiteral(t, pos) ==
    IF pos < Len(t) /\ CharAt(t, pos) # "'"
    THEN IF CharAt(t, pos) = "\\" /\ pos + 1 < Len(t)
         THEN SkipLiteral(t, pos + 2)
         ELSE SkipLiteral(t, pos + 1)
    ELSE pos

RECURSIVE FindClose(_, _, _)
FindClose(t, pos, depth) ==
    IF ~(pos < Len(t) /\ depth > 0) THEN -1
    ELSE IF Slice(t, pos, pos + 2) = <<"}", "}">>
         THEN IF depth - 1 = 0 THEN pos ELSE FindClose(t, pos + 2, depth - 1)
    ELSE IF Slice(t, pos, pos + 2) = <<"{", "{">>
         THEN FindClose(t, pos + 2, depth + 1)
    ELSE IF CharAt(t, pos) = "'"
         THEN FindClose(t, SkipLiteral(t, pos + 1) + 1, depth)
    ELSE FindClose(t, pos + 1, depth)

\* the end of the template stands in for a close delimiter that is missing
findClosingDelimiterOrEnd(t, start) ==
    LET Found(closePos) ==
            IF closePos = -1 /\ start <= Len(t) - Len(CLOSE_DELIM)
            THEN Len(t) - Len(CLOSE_DELIM) ELSE closePos
    IN  Found(FindClose(t, start, 1))

findClosingDelimiter(t, start) == FindClose(t, start, 1)

RECURSIVE ParseFrom(_, _)
ParseFrom(t, pos) ==
    LET Closed(openPos, closePos) ==
            IF closePos = -1 THEN <<>>
            ELSE <<[match |-> Slice(t, openPos, closePos + Len(CLOSE_DELIM)),
                    inner |-> Trim(Slice(t, openPos + Len(OPEN_DELIM), closePos)),
                    start |-> openPos,
                    end |-> closePos + Len(CLOSE_DELIM)]>>
                 \o ParseFrom(t, closePos + Len(CLOSE_DELIM))
        Opened(openPos) ==
            IF openPos = -1 THEN <<>>
            ELSE Closed(openPos, findClosingDelimiter(t, openPos + Len(OPEN_DELIM)))
    IN  IF ~(pos < Len(t)) THEN <<>>
        ELSE Opened(IndexOf(t, OPEN_DELIM, pos))

parseTemplate(t) == ParseFrom(t, 0)

PATH == <<"p", "a", "t", "h">>
QUERY == <<"q", "u", "e", "r", "y">>
BODY == <<"b", "o", "d", "y">>
AUTH == <<"a", "u", "t", "h">>

\* a loop that reads a property of whatever it holds
RECURSIVE NavigateUnguarded(_, _)
NavigateUnguarded(value, path) ==
    IF path = <<>> THEN value
    ELSE IF IsNullish(value) THEN NativeError("TypeError")
    ELSE NavigateUnguarded(GetProp(value, Head(path)), Tail(path))

\* the for loop of resolveVariable over the property chain
RECURSIVE Navigate(_, _)
Navigate(value, path) ==
    IF path = <<>> THEN value
    ELSE IF IsNullish(value) THEN Undefined
    ELSE Navigate(GetProp(value, Head(path)), Tail(path))

SplitCommaValueKept(value) == value

SplitCommaValue(value) ==
    LET Strings(parts) == Arr([i \in 1..Len(parts) |-> Str(parts[i])])
    IN  Strings(Split(value.v, ","))

resolveVariable(ref, ctx) ==
    LET Resolved(source, value) ==
            IF source = QUERY /\ value.t = "string" /\ Includes(value.v, <<",">>)
            THEN SplitCommaValue(value)
            ELSE value
        From(source, path) ==
            IF source \notin {PATH, QUERY, BODY, AUTH} THEN Undefined
            ELSE Resolved(source,
                          Navigate(CASE source = PATH -> ctx.path
                                     [] source = QUERY -> ctx.query
                                     [] source = BODY -> ctx.body
                                     [] source = AUTH -> ctx.auth,
                                   path))
        Parts(parts) == From(parts[1], Tail(parts))
    IN  Parts(Split(Trim(ref), "."))

\* /^-?\d+(\.\d+)?$/
AllDigits(s) == s # <<>> /\ \A i \in 1..Len(s) : s[i] \in Digits
IsNumberLiteral(s) ==
    LET Unsigned(u, dot) ==
            IF dot = -1 THEN AllDigits(u)
            ELSE AllDigits(Slice(u, 0, dot)) /\ AllDigits(SliceFrom(u, dot + 1))
        Signless(u) == Unsigned(u, IndexOf(u, <<".">>, 0))
    IN  Signless(IF s # <<>> /\ Head(s) = "-" THEN Tail(s) ELSE s)

RECURSIVE StripLeadingZeros(_)
StripLeadingZeros(s) ==
    IF Len(s) > 1 /\ Head(s) = "0" THEN StripLeadingZeros(Tail(s)) ELSE s

RECURSIVE StripTrailingZeros(_)
StripTrailingZeros(s) ==
    IF s # <<>> /\ s[Len(s)] = "0"
    THEN StripTrailingZeros(SubSeq(s, 1, Len(s) - 1)) ELSE s

\* parseFloat of a number literal, as the canonical decimal text of the number
parseFloat(s) ==
    LET neg == s # <<>> /\ Head(s) = "-"
        Signed(body) == Num(IF neg /\ body # <<"0">> THEN <<"-">> \o body ELSE body)
        Composed(int, frac) ==
            Signed(IF frac = <<>> THEN int ELSE int \o <<".">> \o frac)
        Unsigned(u, dot) ==
            Composed(StripLeadingZeros(IF dot = -1 THEN u ELSE Slice(u, 0, dot)),
                     IF dot = -1 THEN <<>> ELSE StripTrailingZeros(SliceFrom(u, dot + 1)))
        Signless(u) == Unsigned(u, IndexOf(u, <<".">>, 0))
    IN  Signless(IF neg THEN Tail(s) ELSE s)

\* s.replace(/\\'/g, "'")
RECURSIVE UnescapeQuotes(_)
UnescapeQuotes(s) ==
    IF s = <<>> THEN <<>>
    ELSE IF Len(s) >= 2 /\ s[1] = "\\" /\ s[2] = "'"
         THEN <<"'">> \o UnescapeQuotes(SubSeq(s, 3, Len(s)))
    ELSE <<Head(s)>> \o UnescapeQuotes(Tail(s))

FirstThrow(args) == args[CHOOSE i \in 1..Len(args) :
                            IsThrow(args[i]) /\ \A j \in 1..(i - 1) : ~IsThrow(args[j])]

\* args[0] || args[1]
DefaultOfFalsy(args) ==
    IF Len(args) >= 1 /\ ~IsNullish(args[1])
       /\ args[1] \notin {Str(<<>>), Num(<<"0">>), False}
    THEN args[1]
    ELSE IF Len(args) >= 2 THEN args[2] ELSE Undefined

\* args[0] ?? args[1]
DefaultOf(args) ==
    IF Len(args) >= 1 /\ ~IsNullish(args[1]) THEN args[1]
    ELSE IF Len(args) >= 2 THEN args[2] ELSE Undefined

RECURSIVE evaluateFunction(_, _)
RECURSIVE evaluateArg(_, _)
RECURSIVE ParseArgsLoop(_, _, _, _, _, _)

\* a loop that takes every comma for a separator
RECURSIVE ParseArgsLoopEveryComma(_, _, _, _, _, _)
ParseArgsLoopEveryComma(argsStr, ctx, pos, argStart, depth, inString) ==
    LET Pushed(argText) ==
            IF argText # <<>> THEN <<evaluateArg(argText, ctx)>> ELSE <<>>
    IN  IF ~(pos <= Len(argsStr)) THEN <<>>
        ELSE IF CharAt(argsStr, pos) = "," \/ pos = Len(argsStr)
        THEN Pushed(Trim(Slice(argsStr, argStart, pos)))
             \o ParseArgsLoopEveryComma(argsStr, ctx, pos + 1, pos + 1, depth, inString)
        ELSE ParseArgsLoopEveryComma(argsStr, ctx, pos + 1, argStart, depth, inString)

\* the first position from pos on that holds one of the characters stops, or
\* the length of argsStr: where the loop of parseArgs arrives by pos++ alone
NextStop(argsStr, pos, stops) ==
    IF pos >= Len(argsStr) THEN pos
    ELSE CHOOSE j \in pos..Len(argsStr) :
            /\ j = Len(argsStr) \/ CharAt(argsStr, j) \in stops
            /\ \A k \in pos..(j - 1) : CharAt(argsStr, k) \notin stops

\* the while loop of parseArgs; the values pushed so far are its result (the
\* iterations over a run of characters that only advance pos are one step)
ParseArgsLoop(argsStr, ctx, pos, argStart, depth, inString) ==
    LET Pushed(argText) ==
            IF argText # <<>> THEN <<evaluateArg(argText, ctx)>> ELSE <<>>
        At(char) ==
            IF inString
            THEN IF char = "'"
                 THEN ParseArgsLoop(argsStr, ctx, pos + 1, argStart, depth,
                                    CharAt(argsStr, pos - 1) = "\\")
                 ELSE ParseArgsLoop(argsStr, ctx, NextStop(argsStr, pos + 1, {"'"}),
                                    argStart, depth, TRUE)
            ELSE IF char = "'"
            THEN ParseArgsLoop(argsStr, ctx, pos + 1, argStart, depth, TRUE)
            ELSE IF char = "("
            THEN ParseArgsLoop(argsStr, ctx, pos + 1, argStart, depth + 1, FALSE)
            ELSE IF char = ")"
            THEN ParseArgsLoop(argsStr, ctx, pos + 1, argStart, depth - 1, FALSE)
            ELSE IF (char = "," /\ depth = 0) \/ pos = Len(argsStr)
            THEN Pushed(Trim(Slice(argsStr, argStart, pos)))
                 \o ParseArgsLoop(argsStr, ctx, pos + 1, pos + 1, depth, FALSE)
            ELSE ParseArgsLoop(argsStr, ctx,
                               NextStop(argsStr, pos + 1, {"'", "(", ")", ","}),
                               argStart, depth, FALSE)
    IN  IF ~(pos <= Len(argsStr)) THEN <<>>
        ELSE At(CharAt(argsStr, pos))

parseArgs(argsStr, ctx) ==
    IF Trim(argsStr) = <<>> THEN <<>>
    ELSE ParseArgsLoop(argsStr, ctx, 0, 0, 0, FALSE)

\* an argument that looks like a call is taken for a variable reference
evaluateArgNoNested(arg, ctx) ==
    LET Trimmed(trimmed) ==
            IF StartsWithAt(trimmed, <<"'">>, 0) /\ EndsWith(trimmed, <<"'">>)
            THEN Str(UnescapeQuotes(Slice(trimmed, 1, Len(trimmed) - 1)))
            ELSE IF IsNumberLiteral(trimmed) THEN parseFloat(trimmed)
            ELSE IF trimmed = <<"n", "u", "l", "l">> THEN Null
            ELSE resolveVariable(trimmed, ctx)
    IN  Trimmed(Trim(arg))

evaluateArg(arg, ctx) ==
    LET Trimmed(trimmed) ==
            IF StartsWithAt(trimmed, <<"'">>, 0) /\ EndsWith(trimmed, <<"'">>)
            THEN Str(UnescapeQuotes(Slice(trimmed, 1, Len(trimmed) - 1)))
            ELSE IF IsNumberLiteral(trimmed) THEN parseFloat(trimmed)
            ELSE IF trimmed = <<"n", "u", "l", "l">> THEN Null
            ELSE IF Includes(trimmed, <<"(">>) /\ EndsWith(trimmed, <<")">>)
            THEN evaluateFunction(trimmed, ctx)
            ELSE resolveVariable(trimmed, ctx)
    IN  Trimmed(Trim(arg))

evaluateFunction(expr, ctx) ==
    LET Applied(name, args) ==
            IF \E i \in 1..Len(args) : IsThrow(args[i]) THEN FirstThrow(args)
            ELSE IF name = <<"d", "e", "f", "a", "u", "l", "t">>
            THEN DefaultOf(args)
            ELSE IF name = <<"n", "o", "w">> THEN DateNow
            ELSE IF name = <<"u", "u", "i", "d">> THEN Uuid
            ELSE OpenApiDbError("UNKNOWN_FUNCTION", name, DefaultStatus, Undefined)
        Called(trimmed, parenPos) ==
            IF parenPos = -1 \/ ~EndsWith(trimmed, <<")">>)
            THEN OpenApiDbError("UNKNOWN_FUNCTION", expr, DefaultStatus, Undefined)
            ELSE Applied(Trim(Slice(trimmed, 0, parenPos)),
                         parseArgs(Slice(trimmed, parenPos + 1, Len(trimmed) - 1), ctx))
        Trimmed(trimmed) == Called(trimmed, IndexOf(trimmed, <<"(">>, 0))
    IN  Trimmed(Trim(expr))

-----------------------------------------------------------------------------
(* adapters/postgres and adapters/mysql: interpolate                       *)

\* /^\w+\(/.test(inner)
IsFunction(inner) ==
    LET Word(n) == n >= 1 /\ CharAt(inner, n) = "("
    IN  Word(WordPrefixLen(inner))

\* isFunction ? helpers.evaluateFunction(...) : helpers.resolveVariable(...)
EvaluateRef(ref, ctx) ==
    IF IsFunction(ref.inner) THEN evaluateFunction(ref.inner, ctx)
    ELSE resolveVariable(ref.inner, ctx)

\* sql.slice(0, start + offset) + placeholder + sql.slice(end + offset)
Splice(acc, ref, placeholder, value) ==
    [sql |-> Slice(acc.sql, 0, ref.start + acc.offset) \o placeholder
             \o SliceFrom(acc.sql, ref.end + acc.offset),
     offset |-> acc.offset + Len(placeholder) - (ref.end - ref.start),
     values |-> Append(acc.values, value)]

\* String(value ?? "") of a value
ToText(value) ==
    IF IsNullish(value) THEN <<>>
    ELSE IF value.t \in {"string", "number", "boolean"} THEN value.v
    ELSE IF value.t = "array"
         THEN Join([i \in 1..Len(value.v) |->
                      (IF i > 1 THEN <<",">> ELSE <<>>)
                      \o (IF IsNullish(value.v[i]) \/ value.v[i].t \notin {"string", "number"}
                          THEN <<>> ELSE value.v[i].v)])
    ELSE IF value.t = "date" THEN <<"D">>
    ELSE <<"[", "o", "b", "j", "e", "c", "t", " ", "O", "b", "j", "e", "c", "t", "]">>

PgLoopBodySpliced(acc, ref, value) ==
    Splice(acc, ref, ToText(value), value)

PgLoopBodyFixedWidth(acc, ref, value) ==
    LET placeholder == <<"$">> \o NumberToString(Len(acc.values) + 1)
    IN  [Splice(acc, ref, placeholder, value)
            EXCEPT !.offset = acc.offset + 2 - (ref.end - ref.start)]

\* one iteration of the for loop of PgAdapter.interpolate
PgLoopBody(acc, ref, value) ==
    LET placeholder == <<"$">> \o NumberToString(Len(acc.values) + 1)
    IN  Splice(acc, ref, placeholder, value)

\* one iteration of the for loop of MysqlAdapter.interpolate
MysqlLoopBody(acc, ref, value) == Splice(acc, ref, <<"?">>, value)

RECURSIVE PgLoop(_, _, _, _)
PgLoop(refs, i, acc, ctx) ==
    LET Evaluated(value) ==
            IF IsThrow(value) THEN value
            ELSE PgLoop(refs, i + 1, PgLoopBody(acc, refs[i], value), ctx)
    IN  IF i > Len(refs) THEN [t |-> "artifact", sql |-> acc.sql, values |-> acc.values]
        ELSE Evaluated(EvaluateRef(refs[i], ctx))

PgInterpolate(query, ctx) ==
    PgLoop(parseTemplate(query), 1, [sql |-> query, offset |-> 0, values |-> <<>>], ctx)

RECURSIVE MysqlLoop(_, _, _, _)
MysqlLoop(refs, i, acc, ctx) ==
    LET Evaluated(value) ==
            IF IsThrow(value) THEN value
            ELSE MysqlLoop(refs, i + 1, MysqlLoopBody(acc, refs[i], value), ctx)
    IN  IF i > Len(refs) THEN [t |-> "artifact", sql |-> acc.sql, values |-> acc.values]
        ELSE Evaluated(EvaluateRef(refs[i], ctx))

MysqlInterpolate(query, ctx) ==
    MysqlLoop(parseTemplate(query), 1, [sql |-> query, offset |-> 0, values |-> <<>>], ctx)

-----------------------------------------------------------------------------
(* adapters/mongodb: validateQuery, interpolate                            *)

COLLECTION == <<"c", "o", "l", "l", "e", "c", "t", "i", "o", "n">>
OPERATION == <<"o", "p", "e", "r", "a", "t", "i", "o", "n">>
PIPELINE == <<"p", "i", "p", "e", "l", "i", "n", "e">>
FILTER == <<"f", "i", "l", "t", "e", "r">>
UPDATE == <<"u", "p", "d", "a", "t", "e">>
REPLACEMENT == <<"r", "e", "p", "l", "a", "c", "e", "m", "e", "n", "t">>
DOCUMENT == <<"d", "o", "c", "u", "m", "e", "n", "t">>
OPERATIONS == <<"o", "p", "e", "r", "a", "t", "i", "o", "n", "s">>
OPTIONS == <<"o", "p", "t", "i", "o", "n", "s">>

OpFind == <<"f", "i", "n", "d">>
OpFindOne == <<"f", "i", "n", "d", "O", "n", "e">>
OpInsertOne == <<"i", "n", "s", "e", "r", "t", "O", "n", "e">>
OpUpdateOne == <<"u", "p", "d", "a", "t", "e", "O", "n", "e">>
OpReplaceOne == <<"r", "e", "p", "l", "a", "c", "e", "O", "n", "e">>
OpDeleteOne == <<"d", "e", "l", "e", "t", "e", "O", "n", "e">>
OpAggregate == <<"a", "g", "g", "r", "e", "g", "a", "t", "e">>
OpCount == <<"c", "o", "u", "n", "t">>
OpFindOneAndUpdate == <<"f", "i", "n", "d", "O", "n", "e", "A", "n", "d", "U", "p", "d", "a", "t", "e">>
OpFindOneAndDelete == <<"f", "i", "n", "d", "O", "n", "e", "A", "n", "d", "D", "e", "l", "e", "t", "e">>
OpBulkWrite == <<"b", "u", "l", "k", "W", "r", "i", "t", "e">>

SUPPORTED_OPERATIONS ==
    {OpFind, OpFindOne, OpInsertOne, OpUpdateOne, OpReplaceOne, OpDeleteOne,
     OpAggregate, OpCount, OpFindOneAndUpdate, OpFindOneAndDelete, OpBulkWrite}

EmptyObject == Obj(<<>>, <<>>)

\* typeof value === "object" (null included)
TypeofObject(value) == value.t \in {"object", "array", "date", "null"}

\* key in value
HasKey(value, key) == value.t = "object" /\ \E i \in 1..Len(value.k) : value.k[i] = key

\* !!value
Truthy(value) ==
    CASE value.t \in {"undefined", "null"} -> FALSE
      [] value.t = "string" -> value.v # <<>>
      [] value.t = "number" -> value.v # <<"0">>
      [] value.t = "boolean" -> value # False
      [] OTHER -> TRUE

Valid == [valid |-> TRUE, error |-> ""]
Invalid(reason) == [valid |-> FALSE, error |-> reason]

\* !query.f || typeof query.f !== "object"
MissingObject(query, f) ==
    LET Field(value) == ~Truthy(value) \/ ~TypeofObject(value)
    IN  Field(GetProp(query, f))

validateOperationFields(operation, query) ==
    IF operation = OpInsertOne
    THEN IF MissingObject(query, DOCUMENT) THEN Invalid("requires a 'document' object") ELSE Valid
    ELSE IF operation \in {OpUpdateOne, OpFindOneAndUpdate}
    THEN IF MissingObject(query, FILTER) THEN Invalid("requires a 'filter' object")
         ELSE IF MissingObject(query, UPDATE) THEN Invalid("requires an 'update' object")
         ELSE Valid
    ELSE IF operation = OpReplaceOne
    THEN IF MissingObject(query, FILTER) THEN Invalid("requires a 'filter' object")
         ELSE IF MissingObject(query, REPLACEMENT) THEN Invalid("requires a 'replacement' object")
         ELSE Valid
    ELSE IF operation \in {OpDeleteOne, OpFindOneAndDelete}
    THEN IF MissingObject(query, FILTER) THEN Invalid("requires a 'filter' object") ELSE Valid
    ELSE IF operation = OpBulkWrite
    THEN IF GetProp(query, OPERATIONS).t # "array"
         THEN Invalid("bulkWrite requires an 'operations' array") ELSE Valid
    ELSE Valid

MongoValidateQuery(query) ==
    LET Operation(operation) ==
            IF operation.t # "string"
            THEN Invalid("MongoDB query must have either 'operation' or 'pipeline' field")
            ELSE IF operation.v \notin SUPPORTED_OPERATIONS
            THEN Invalid("Unknown MongoDB operation")
            ELSE validateOperationFields(operation.v, query)
        Collection(collection) ==
            IF collection.t # "string" \/ ~Truthy(collection)
            THEN Invalid("MongoDB query must have a 'collection' field (string)")
            ELSE IF HasKey(query, PIPELINE)
            THEN IF GetProp(query, PIPELINE).t # "array"
                 THEN Invalid("MongoDB pipeline must be an array") ELSE Valid
            ELSE Operation(GetProp(query, OPERATION))
    IN  IF query.t = "null" \/ ~TypeofObject(query)
        THEN Invalid("MongoDB adapter expects an object query")
        ELSE Collection(GetProp(query, COLLECTION))

\* the loop of interpolateString that builds a string result
RECURSIVE MongoStringLoop(_, _, _, _)
MongoStringLoop(refs, i, acc, ctx) ==
    LET Evaluated(value) ==
            IF IsThrow(value) THEN value
            ELSE MongoStringLoop(refs, i + 1, Splice(acc, refs[i], ToText(value), value), ctx)
    IN  IF i > Len(refs) THEN Str(acc.sql)
        ELSE Evaluated(EvaluateRef(refs[i], ctx))

interpolateStringAlwaysText(tpl, ctx) ==
    MongoStringLoop(parseTemplate(tpl), 1, [sql |-> tpl, offset |-> 0, values |-> <<>>], ctx)

interpolateString(tpl, ctx) ==
    LET Parsed(refs) ==
            IF Len(refs) = 0 THEN Str(tpl)
            ELSE IF Len(refs) = 1 /\ refs[1].start = 0 /\ refs[1].end = Len(tpl)
            THEN EvaluateRef(refs[1], ctx)
            ELSE MongoStringLoop(refs, 1, [sql |-> tpl, offset |-> 0, values |-> <<>>], ctx)
    IN  Parsed(parseTemplate(tpl))

RECURSIVE interpolateValue(_, _)
interpolateValue(value, ctx) ==
    LET Items(items) ==
            IF \E i \in 1..Len(items) : IsThrow(items[i]) THEN FirstThrow(items)
            ELSE [value EXCEPT !.v = items]
    IN  IF value.t = "string" THEN interpolateString(value.v, ctx)
        ELSE IF value.t \in {"array", "object"}
        THEN Items([i \in 1..Len(value.v) |-> interpolateValue(value.v[i], ctx)])
        ELSE value

\* x || {}
OrEmpty(x) == IF Truthy(x) THEN x ELSE EmptyObject

MongoArtifact(collection, operation, args) ==
    [t |-> "artifact", collection |-> collection, operation |-> operation, args |-> args]

buildPipelineQuery(query) ==
    MongoArtifact(GetProp(query, COLLECTION), Str(OpAggregate),
                  <<GetProp(query, PIPELINE), OrEmpty(GetProp(query, OPTIONS))>>)

buildOperationQuery(query) ==
    LET collection == GetProp(query, COLLECTION)
        operation == GetProp(query, OPERATION)
        filter == GetProp(query, FILTER)
        options == OrEmpty(GetProp(query, OPTIONS))
        Built(op) ==
            IF op \in {OpFind, OpFindOne, OpCount}
            THEN <<OrEmpty(filter), options>>
            ELSE IF op = OpInsertOne
            THEN <<GetProp(query, DOCUMENT), options>>
            ELSE IF op \in {OpUpdateOne, OpFindOneAndUpdate}
            THEN <<filter, GetProp(query, UPDATE), options>>
            ELSE IF op = OpReplaceOne
            THEN <<filter, GetProp(query, REPLACEMENT), options>>
            ELSE IF op \in {OpDeleteOne, OpFindOneAndDelete}
            THEN <<filter, options>>
            ELSE IF op = OpAggregate
            THEN <<IF Truthy(filter) THEN Arr(<<filter>>) ELSE Arr(<<>>), options>>
            ELSE <<GetProp(query, OPERATIONS), options>>
        Switch(op) ==
            IF op \in SUPPORTED_OPERATIONS
            THEN MongoArtifact(collection, operation, Built(op))
            ELSE OpenApiDbError("QUERY_ERROR", op, 500, Undefined)
    IN  Switch(IF operation.t = "string" THEN operation.v ELSE <<>>)

MongoInterpolate(query, ctx) ==
    LET Built(interpolated) ==
            IF IsThrow(interpolated) THEN interpolated
            ELSE IF HasKey(interpolated, PIPELINE) THEN buildPipelineQuery(interpolated)
            ELSE buildOperationQuery(interpolated)
    IN  Built(interpolateValue(query, ctx))

-----------------------------------------------------------------------------
(* matcher.ts: compileRoute, matchRoute                                    *)

LowerCaseLetters == <<"a", "b", "c", "d", "e", "f", "g", "h", "i", "j", "k", "l", "m",
                      "n", "o", "p", "q", "r", "s", "t", "u", "v", "w", "x", "y", "z">>
UpperCaseLetters == <<"A", "B", "C", "D", "E", "F", "G", "H", "I", "J", "K", "L", "M",
                      "N", "O", "P", "Q", "R", "S", "T", "U", "V", "W", "X", "Y", "Z">>

\* a method left in the case the request gave it
ToLowerCaseKept(s) == s

\* s.toLowerCase()
ToLowerCase(s) ==
    [i \in 1..Len(s) |->
        IF \E j \in 1..26 : UpperCaseLetters[j] = s[i]
        THEN LowerCaseLetters[CHOOSE j \in 1..26 : UpperCaseLetters[j] = s[i]]
        ELSE s[i]]

\* s.toUpperCase()
ToUpperCase(s) ==
    [i \in 1..Len(s) |->
        IF \E j \in 1..26 : LowerCaseLetters[j] = s[i]
        THEN UpperCaseLetters[CHOOSE j \in 1..26 : LowerCaseLetters[j] = s[i]]
        ELSE s[i]]

\* the capture group compileRoute writes for {param}
CAPTURE_GROUP == <<"(", "[", "^", "/", "]", "+", ")">>

\* path.replace(/\{([^}]+)\}/g, ...): the pattern text and the parameter names
RECURSIVE ReplaceParams(_, _)
ReplaceParams(path, i) ==
    LET Param(close, rest) ==
            [patternStr |-> CAPTURE_GROUP \o rest.patternStr,
             paramNames |-> <<Slice(path, i + 1, close)>> \o rest.paramNames]
        Literal(rest) ==
            [patternStr |-> <<CharAt(path, i)>> \o rest.patternStr,
             paramNames |-> rest.paramNames]
        Braced(close) ==
            IF CharAt(path, i) = "{" /\ close > i + 1
            THEN Param(close, ReplaceParams(path, close + 1))
            ELSE Literal(ReplaceParams(path, i + 1))
    IN  IF i >= Len(path) THEN [patternStr |-> <<>>, paramNames |-> <<>>]
        ELSE Braced(IndexOf(path, <<"}">>, i + 1))

\* /\$auth\.\w+/.test(text)
RECURSIVE TestLegacyAuth(_, _)
TestLegacyAuth(text, i) ==
    LET Found(at) ==
            IF at = -1 THEN FALSE
            ELSE IF IsWordChar(CharAt(text, at + 6)) THEN TRUE
            ELSE TestLegacyAuth(text, at + 1)
    IN  Found(IndexOf(text, <<"$", "a", "u", "t", "h", ".">>, i))

\* String(value), the coercion RegExp.prototype.test applies to its argument
ToStringCoerce(value) ==
    IF value.t = "undefined" THEN <<"u", "n", "d", "e", "f", "i", "n", "e", "d">>
    ELSE IF value.t = "null" THEN <<"n", "u", "l", "l">>
    ELSE ToText(value)

\* a compiler that would mark every route as using auth
UsesAuthAlways(query) == TRUE

\* /\$auth\.\w+/.test(xDb.query)
UsesAuth(query) == TestLegacyAuth(ToStringCoerce(query), 0)

\* xDb is [query, adapter, fields, returns]; method is a lower-case HttpMethod
compileRoute(path, method, xDb, parameters) ==
    LET Compiled(compiled) ==
            [method |-> method,
             pattern |-> compiled.patternStr,
             paramNames |-> compiled.paramNames,
             xDb |-> xDb,
             parameters |-> parameters,
             usesAuth |-> UsesAuth(xDb.query),
             originalPath |-> path]
    IN  Compiled(ReplaceParams(path, 0))

NoMatch == [ok |-> FALSE, caps |-> <<>>, closes |-> <<>>]

\* number of leading characters of s, from j, that are not "/"
RECURSIVE SegmentRun(_, _)
SegmentRun(s, j) ==
    IF j < Len(s) /\ CharAt(s, j) # "/" THEN 1 + SegmentRun(s, j + 1) ELSE 0

\* path.match(new RegExp("^" + patternStr + "$")) for the pattern texts that
\* compileRoute writes from paths over letters, digits, "/", "-", "{", "}",
\* "." and balanced "(" ")": a capture group written for a parameter, a
\* group opened by a parenthesis of the path, "." (any character) or a
\* literal character. caps are the captures in the order of their opening
\* parentheses; closes are the offsets at which groups still open end.
RECURSIVE RegexMatch(_, _, _, _)
RECURSIVE GroupTry(_, _, _, _, _)
RegexMatch(pat, p, s, j) ==
    LET Opened(r) ==
            IF ~r.ok \/ r.closes = <<>> THEN NoMatch
            ELSE [ok |-> TRUE, caps |-> <<Slice(s, j, Head(r.closes))>> \o r.caps,
                  closes |-> Tail(r.closes)]
        Closed(r) ==
            IF ~r.ok THEN NoMatch
            ELSE [ok |-> TRUE, caps |-> r.caps, closes |-> <<j>> \o r.closes]
    IN  IF p >= Len(pat)
        THEN (IF j = Len(s) THEN [ok |-> TRUE, caps |-> <<>>, closes |-> <<>>] ELSE NoMatch)
        ELSE IF StartsWithAt(pat, CAPTURE_GROUP, p)
        THEN GroupTry(pat, p + Len(CAPTURE_GROUP), s, j, SegmentRun(s, j))
        ELSE IF CharAt(pat, p) = "(" THEN Opened(RegexMatch(pat, p + 1, s, j))
        ELSE IF CharAt(pat, p) = ")" THEN Closed(RegexMatch(pat, p + 1, s, j))
        ELSE IF j < Len(s) /\ (CharAt(pat, p) = "." \/ CharAt(pat, p) = CharAt(s, j))
        THEN RegexMatch(pat, p + 1, s, j + 1)
        ELSE NoMatch

\* the greedy [^/]+ : longest capture first, backing off one character at a time
GroupTry(pat, p, s, j, len) ==
    LET Rest(r) ==
            IF r.ok THEN [ok |-> TRUE, caps |-> <<Slice(s, j, j + len)>> \o r.caps,
                          closes |-> r.closes]
            ELSE GroupTry(pat, p, s, j, len - 1)
    IN  IF len < 1 THEN NoMatch
        ELSE Rest(RegexMatch(pat, p, s, j + len))

HexDigits == <<"0", "1", "2", "3", "4", "5", "6", "7", "8", "9",
               "a", "b", "c", "d", "e", "f">>
UpperHexDigits == <<"0", "1", "2", "3", "4", "5", "6", "7", "8", "9",
                    "A", "B", "C", "D", "E", "F">>
IsHex(c) == c \in Digits \cup {"a", "b", "c", "d", "e", "f", "A", "B", "C", "D", "E", "F"}
HexVal(c) ==
    CHOOSE h \in 0..15 : HexDigits[h + 1] = c \/ UpperHexDigits[h + 1] = c

\* the byte written as %hh at position i, -1 when there is no such escape
EscapedByte(s, i) ==
    LET Hex(hi, lo) == IF IsHex(hi) /\ IsHex(lo) THEN 16 * HexVal(hi) + HexVal(lo) ELSE -1
    IN  IF CharAt(s, i) = "%" THEN Hex(CharAt(s, i + 1), CharAt(s, i + 2)) ELSE -1

AsciiTable == <<
    "<0x00>", "<0x01>", "<0x02>", "<0x03>", "<0x04>", "<0x05>", "<0x06>", "<0x07>",
    "<0x08>", "<0x09>", "<0x0A>", "<0x0B>", "<0x0C>", "<0x0D>", "<0x0E>", "<0x0F>",
    "<0x10>", "<0x11>", "<0x12>", "<0x13>", "<0x14>", "<0x15>", "<0x16>", "<0x17>",
    "<0x18>", "<0x19>", "<0x1A>", "<0x1B>", "<0x1C>", "<0x1D>", "<0x1E>", "<0x1F>",
    " ", "!", "\"", "#", "$", "%", "&", "'",
    "(", ")", "*", "+", ",", "-", ".", "/",
    "0", "1", "2", "3", "4", "5", "6", "7",
    "8", "9", ":", ";", "<", "=", ">", "?",
    "@", "A", "B", "C", "D", "E", "F", "G",
    "H", "I", "J", "K", "L", "M", "N", "O",
    "P", "Q", "R", "S", "T", "U", "V", "W",
    "X", "Y", "Z", "[", "\\", "]", "^", "_",
    "<0x60>", "a", "b", "c", "d", "e", "f", "g",
    "h", "i", "j", "k", "l", "m", "n", "o",
    "p", "q", "r", "s", "t", "u", "v", "w",
    "x", "y", "z", "{", "|", "}", "~", "<0x7F>" >>

NonAscii == "<non-ascii>"

\* number of continuation bytes a UTF-8 lead byte announces, -1 when the
\* byte cannot start a sequence
Continuations(b) ==
    IF b >= 194 /\ b <= 223 THEN 1
    ELSE IF b >= 224 /\ b <= 239 THEN 2
    ELSE IF b >= 240 /\ b <= 244 THEN 3
    ELSE -1

\* well-formedness of the n-th continuation byte c after lead byte b
ContinuationOk(b, n, c) ==
    IF n = 1 /\ b = 224 THEN c >= 160 /\ c <= 191
    ELSE IF n = 1 /\ b = 237 THEN c >= 128 /\ c <= 159
    ELSE IF n = 1 /\ b = 240 THEN c >= 144 /\ c <= 191
    ELSE IF n = 1 /\ b = 244 THEN c >= 128 /\ c <= 143
    ELSE c >= 128 /\ c <= 191

URIError == NativeError("URIError")

\* the n bytes after lead byte b at position i are well-formed continuations
WellFormed(s, i, b, n) ==
    \A m \in 1..n :
        /\ EscapedByte(s, i + 3 * m) # -1
        /\ ContinuationOk(b, m, EscapedByte(s, i + 3 * m))

\* decodeURIComponent(s): the decoded string, or URIError for a malformed
\* escape; a well-formed multi-byte sequence decodes to one character
RECURSIVE DecodeFrom(_, _)
DecodeFrom(s, i) ==
    LET Then(chars, rest) == IF IsThrow(rest) THEN rest ELSE Str(chars \o rest.v)
        Escape(b, n) ==
            IF b = -1 THEN URIError
            ELSE IF b < 128 THEN Then(<<AsciiTable[b + 1]>>, DecodeFrom(s, i + 3))
            ELSE IF n = -1 THEN URIError
            ELSE IF WellFormed(s, i, b, n)
            THEN Then(<<NonAscii>>, DecodeFrom(s, i + 3 * (n + 1)))
            ELSE URIError
        Byte(b) == Escape(b, Continuations(b))
    IN  IF i >= Len(s) THEN Str(<<>>)
        ELSE IF CharAt(s, i) # "%" THEN Then(<<CharAt(s, i)>>, DecodeFrom(s, i + 1))
        ELSE Byte(EscapedByte(s, i))

decodeURIComponent(s) == DecodeFrom(s, 0)

\* the forEach of matchRoute that fills pathParams: an object, or the error
\* decodeURIComponent throws
ExtractPathParams(paramNames, caps) ==
    LET Decoded(decoded) ==
            IF \E i \in 1..Len(decoded) : IsThrow(decoded[i]) THEN FirstThrow(decoded)
            ELSE Obj(paramNames, decoded)
    IN  Decoded([i \in 1..Len(paramNames) |->
                    IF i <= Len(caps) THEN decodeURIComponent(caps[i]) ELSE URIError])

\* matchRoute(routes, method, path): [route |-> index, pathParams], Null, or
\* the error thrown while decoding
RECURSIVE MatchFrom(_, _, _, _)
MatchFrom(rs, i, normalizedMethod, path) ==
    LET Params(pathParams) ==
            IF IsThrow(pathParams) THEN pathParams
            ELSE [t |-> "match", route |-> i, pathParams |-> pathParams]
        Matched(m) ==
            IF ~m.ok THEN MatchFrom(rs, i + 1, normalizedMethod, path)
            ELSE Params(ExtractPathParams(rs[i].paramNames, m.caps))
    IN  IF i > Len(rs) THEN Null
        ELSE IF rs[i].method # normalizedMethod
        THEN MatchFrom(rs, i + 1, normalizedMethod, path)
        ELSE Matched(RegexMatch(rs[i].pattern, 0, path, 0))

\* a matcher that would take the first route's method for the request's
matchRouteAnyMethod(rs, method, path) ==
    MatchFrom(rs, 1, IF rs = <<>> THEN ToLowerCase(method) ELSE rs[1].method, path)

matchRoute(rs, method, path) == MatchFrom(rs, 1, ToLowerCase(method), path)

-----------------------------------------------------------------------------
(* Request contexts                                                        *)

ID == <<"i", "d">>
QKEY == <<"q">>
PW == <<"p", "w">>
TENANT == <<"t", "e", "n", "a", "n", "t", "I", "d">>
NE == <<"$", "n", "e">>

\* characters that occur in request data and in no template
RequestChars == {"X", "Y", "Z", ","}

CtxOne == [path |-> Obj(<<ID>>, <<Str(<<"X">>)>>),
           query |-> Obj(<<QKEY>>, <<Str(<<"X", ",", "Y">>)>>),
           body |-> Obj(<<PW>>, <<Str(<<"X">>)>>),
           auth |-> Null]

CtxTwo == [path |-> Obj(<<ID>>, <<Str(<<"Y">>)>>),
           query |-> Obj(<<>>, <<>>),
           body |-> Obj(<<PW>>, <<Obj(<<NE>>, <<Null>>)>>),
           auth |-> Obj(<<TENANT>>, <<Str(<<"Z">>)>>)]

Contexts == {CtxOne, CtxTwo}

NoResult == [t |-> "none"]

-----------------------------------------------------------------------------
(* Flat-query adapters under test: build a template, interpolate it        *)

MaxAtoms == 3
MaxLong == 11

RefPathId == <<"$", "{", "{", "p", "a", "t", "h", ".", "i", "d", " ", "}", "}">>
TextPiece == <<"=">>

FlatAtoms == {OPEN_DELIM, CLOSE_DELIM, <<"{", "{">>, <<"'">>, <<"a">>,
              <<"p", "a", "t", "h", ".", "i", "d">>,
              <<"q", "u", "e", "r", "y", ".", "q">>,
              <<"n", "o", "p", "e", "(", ")">>, RefPathId}
LongPieces == {RefPathId, TextPiece}

InitFlatIdle ==
    /\ mode = "off" /\ template = <<>> /\ pieces = <<>>
    /\ pgA = NoResult /\ pgB = NoResult /\ myA = NoResult /\ myB = NoResult

InitCtxIdle == ctxA = CtxOne /\ ctxB = CtxOne /\ phase = "off"

InitMongoIdle == mq = Null /\ mgA = NoResult /\ mgB = NoResult

InitHelperIdle == helperInput = <<>> /\ helperOutput = NoResult

InitRequestIdle ==
    /\ req = NoResult /\ route = 0 /\ matched = NoResult /\ authContext = Null
    /\ context = NoResult /\ artifact = NoResult
    /\ engine = [kind |-> "none", rows |-> <<>>, error |-> Undefined]
    /\ rows = <<>> /\ outcome = NoResult /\ trace = <<>>

InitPairIdle == inflight = <<>>

InitRouterIdle ==
    /\ paths = <<>> /\ adapters = <<>> /\ auth = FALSE /\ routes = <<>>
    /\ boot = [t |-> "off"] /\ pc = "off" /\ InitRequestIdle /\ InitPairIdle

InitFlat ==
    /\ \/ mode = "atoms" /\ ctxA \in Contexts /\ ctxB \in Contexts
       \/ mode = "long" /\ ctxA = CtxOne /\ ctxB = CtxTwo
    /\ template = <<>> /\ pieces = <<>>
    /\ pgA = NoResult /\ pgB = NoResult /\ myA = NoResult /\ myB = NoResult
    /\ phase = "build"
    /\ InitMongoIdle /\ InitRouterIdle /\ InitHelperIdle

\* the template author appends one lexical atom
AppendAtom ==
    /\ phase = "build" /\ mode = "atoms" /\ Len(pieces) < MaxAtoms
    /\ \E a \in FlatAtoms :
          /\ pieces' = Append(pieces, a)
          /\ template' = template \o a
    /\ UNCHANGED <<mode, pgA, pgB, myA, myB, ctxVars, mongoVars, routerVars, helperVars>>

\* the template author appends a whole reference or a run of text (two
\* adjacent runs of text are one run)
AppendPiece ==
    /\ phase = "build" /\ mode = "long" /\ Len(pieces) < MaxLong
    /\ \E p \in LongPieces :
          /\ (p = TextPiece /\ pieces # <<>>) => pieces[Len(pieces)] # TextPiece
          /\ pieces' = Append(pieces, p)
          /\ template' = template \o p
    /\ UNCHANGED <<mode, pgA, pgB, myA, myB, ctxVars, mongoVars, routerVars, helperVars>>

\* adapter.interpolate(template, context, helpers) of both flat adapters,
\* for each of the two contexts
FlatInterpolate ==
    /\ phase = "build"
    /\ pgA' = PgInterpolate(template, ctxA)
    /\ pgB' = PgInterpolate(template, ctxB)
    /\ myA' = MysqlInterpolate(template, ctxA)
    /\ myB' = MysqlInterpolate(template, ctxB)
    /\ phase' = "done"
    /\ UNCHANGED <<mode, template, pieces, ctxA, ctxB, mongoVars, routerVars, helperVars>>

NextFlat == AppendAtom \/ AppendPiece \/ FlatInterpolate

SpecFlat == InitFlat /\ [][NextFlat]_vars

IsArtifact(x) == x.t = "artifact"

HasRequestChar(s) == \E i \in 1..Len(s) : s[i] \in RequestChars

\* C1: for a fixed string template and any two request contexts the two flat
\* adapters return the same sql text (or fail alike), and no character of
\* the request data occurs in the sql text: resolved values are in the
\* values list only.
C1_SqlDependsOnTemplateOnly ==
    phase = "done" =>
        /\ IsArtifact(pgA) <=> IsArtifact(pgB)
        /\ IsArtifact(myA) <=> IsArtifact(myB)
        /\ IsArtifact(pgA) => pgA.sql = pgB.sql /\ ~HasRequestChar(pgA.sql)
        /\ IsArtifact(myA) => myA.sql = myB.sql /\ ~HasRequestChar(myA.sql)
        /\ ~IsArtifact(pgA) => pgA = pgB
        /\ ~IsArtifact(myA) => myA = myB

\* two different contexts whose values reach the values list
C1_Witness ==
    /\ phase = "done" /\ ctxA # ctxB
    /\ IsArtifact(pgA) /\ IsArtifact(myA)
    /\ Len(pgA.values) >= 1 /\ pgA.values # pgB.values /\ myA.values # myB.values
    /\ \E i \in 1..Len(pgA.values) :
          pgA.values[i].t = "string" /\ HasRequestChar(pgA.values[i].v)

Placeholder(dialect, n) ==
    IF dialect = "pg" THEN <<"$">> \o NumberToString(n) ELSE <<"?">>

\* the template with the i-th reference span replaced by its placeholder
ExpectedFromRefs(t, refs, dialect) ==
    Join([i \in 1..Len(refs) |->
            Slice(t, IF i = 1 THEN 0 ELSE refs[i - 1].end, refs[i].start)
            \o Placeholder(dialect, i)])
    \o SliceFrom(t, IF refs = <<>> THEN 0 ELSE refs[Len(refs)].end)

RefCount(ps) == Cardinality({i \in 1..Len(ps) : ps[i] = RefPathId})

\* the pieces with the i-th reference piece replaced by its placeholder
ExpectedFromPieces(ps, dialect) ==
    Join([i \in 1..Len(ps) |->
            IF ps[i] = RefPathId
            THEN Placeholder(dialect, RefCount(SubSeq(ps, 1, i)))
            ELSE ps[i]])

FlatResultAsClaimed(out, ctx, dialect) ==
    LET refs == parseTemplate(template)
    IN  IsArtifact(out) =>
          /\ out.sql = ExpectedFromRefs(template, refs, dialect)
          /\ Len(out.values) = Len(refs)
          /\ \A i \in 1..Len(refs) : out.values[i] = EvaluateRef(refs[i], ctx)
          /\ mode = "long" =>
                /\ out.sql = ExpectedFromPieces(pieces, dialect)
                /\ Len(out.values) = RefCount(pieces)
                /\ \A i \in 1..Len(out.values) : out.values[i] = ctx.path.v[1]

\* C2: the sql returned by PgAdapter.interpolate is the template with the
\* i-th reference span replaced by $i and all other characters unchanged
\* (also with ten or more references), the values list has one element per
\* reference, in order; MysqlAdapter.interpolate does the same with ?.
C2_PlaceholdersInOrder ==
    phase = "done" =>
        /\ FlatResultAsClaimed(pgA, ctxA, "pg")
        /\ FlatResultAsClaimed(pgB, ctxB, "pg")
        /\ FlatResultAsClaimed(myA, ctxA, "mysql")
        /\ FlatResultAsClaimed(myB, ctxB, "mysql")

\* ten or more references with text between them
C2_Witness ==
    /\ phase = "done" /\ IsArtifact(pgA) /\ IsArtifact(myA)
    /\ Len(pgA.values) >= 10
    /\ Len(pieces) > Len(pgA.values)
    /\ pieces[1] = TextPiece

-----------------------------------------------------------------------------
(* Document adapter under test: build a structured query, interpolate it   *)

MaxFields == 2

USERS == <<"u", "s", "e", "r", "s">>
MATCH == <<"$", "m", "a", "t", "c", "h">>

LeafBodyPw == <<"$", "{", "{", " ", "b", "o", "d", "y", ".", "p", "w", " ", "}", "}">>
LeafMixed == <<"u", "-", "$", "{", "{", "p", "a", "t", "h", ".", "i", "d", "}", "}">>
LeafPlain == <<"a">>
LeafQueryQ == <<"$", "{", "{", " ", "q", "u", "e", "r", "y", ".", "q", " ", "}", "}">>
MongoLeaves == {LeafBodyPw, LeafMixed, LeafPlain}

LIMIT == <<"l", "i", "m", "i", "t">>
SINCE == <<"s", "i", "n", "c", "e">>
GONE == <<"g", "o", "n", "e">>
TAG == <<"t", "a", "g">>
ITEMS == <<"i", "t", "e", "m", "s">>
SKIP == <<"s", "k", "i", "p">>
LeafLimit == <<"$", "{", "{", " ", "d", "e", "f", "a", "u", "l", "t", "(", "q", "u", "e", "r", "y", ".", "n", ",", " ", "2", "0", ")", " ", "}", "}">>
LeafNow == <<"$", "{", "{", " ", "n", "o", "w", "(", ")", " ", "}", "}">>
LeafGone == <<"$", "{", "{", " ", "d", "e", "f", "a", "u", "l", "t", "(", "q", "u", "e", "r", "y", ".", "n", ",", " ", "n", "u", "l", "l", ")", " ", "}", "}">>
LeafTag == <<"t", "-", "$", "{", "{", " ", "a", "u", "t", "h", ".", "t", "e", "n", "a", "n", "t", "I", "d", " ", "}", "}", "-", "$", "{", "{", "p", "a", "t", "h", ".", "i", "d", "}", "}">>

\* the options a query author writes besides the leaf under test
OptionKeys == <<ITEMS, LIMIT, SINCE, GONE, TAG, SKIP>>
OptionValues == <<Str(LeafQueryQ), Str(LeafLimit), Str(LeafNow), Str(LeafGone), Str(LeafTag), Num(<<"5">>)>>

FieldOrder == <<FILTER, UPDATE, REPLACEMENT, DOCUMENT, OPERATIONS, PIPELINE, OPTIONS>>

FieldIndex(key) ==
    IF \E j \in 1..Len(FieldOrder) : FieldOrder[j] = key
    THEN CHOOSE j \in 1..Len(FieldOrder) : FieldOrder[j] = key
    ELSE 0

\* the value a query author writes under a top-level field
FieldValue(field, leaf) ==
    IF field \in {OPERATIONS, PIPELINE}
    THEN Arr(<<Obj(<<MATCH>>, <<Obj(<<PW>>, <<Str(leaf)>>)>>)>>)
    ELSE IF field = OPTIONS
    THEN Obj(<<PW>> \o OptionKeys, <<Str(leaf)>> \o OptionValues)
    ELSE Obj(<<PW>>, <<Str(leaf)>>)

InitMongo ==
    /\ \/ mq = Obj(<<COLLECTION>>, <<Str(USERS)>>)
       \/ \E op \in SUPPORTED_OPERATIONS :
             mq = Obj(<<COLLECTION, OPERATION>>, <<Str(USERS), Str(op)>>)
    /\ mgA = NoResult /\ mgB = NoResult
    /\ ctxA \in Contexts /\ ctxB \in Contexts /\ phase = "build"
    /\ InitFlatIdle /\ InitRouterIdle /\ InitHelperIdle

\* the query author adds one top-level field to the x-db query object
MongoSetField ==
    /\ phase = "build"
    /\ Cardinality({i \in 1..Len(mq.k) : FieldIndex(mq.k[i]) > 0}) < MaxFields
    /\ \E j \in 1..Len(FieldOrder), leaf \in MongoLeaves :
          /\ j > FieldIndex(mq.k[Len(mq.k)])
          /\ mq' = Obj(Append(mq.k, FieldOrder[j]),
                       Append(mq.v, FieldValue(FieldOrder[j], leaf)))
    /\ UNCHANGED <<mgA, mgB, ctxVars, flatVars, routerVars, helperVars>>

\* adapter.interpolate(query, context, helpers) of the MongoAdapter on a
\* query that passed validateQuery, for each of the two contexts
MongoInterpolateStep ==
    /\ phase = "build"
    /\ MongoValidateQuery(mq).valid
    /\ mgA' = MongoInterpolate(mq, ctxA)
    /\ mgB' = MongoInterpolate(mq, ctxB)
    /\ phase' = "done"
    /\ UNCHANGED <<mq, ctxA, ctxB, flatVars, routerVars, helperVars>>

NextMongo == MongoSetField \/ MongoInterpolateStep

SpecMongo == InitMongo /\ [][NextMongo]_vars

-----------------------------------------------------------------------------
(* Template helpers under test: one call of a helper on an expression      *)

FLAG == <<"f", "l", "a", "g">>
NESTED == <<"n", "e", "s", "t", "e", "d">>

\* a request whose values carry commas in every namespace
CtxCommas == [path |-> Obj(<<ID>>, <<Str(<<"X", ",", "Y">>)>>),
              query |-> Obj(<<QKEY, NESTED>>,
                            <<Str(<<"X", ",", "Y", ",", "Z">>),
                              Obj(<<ID>>, <<Str(<<"Y", ",", "Z">>)>>)>>),
              body |-> Obj(<<PW, FLAG>>, <<Str(<<"X", ",", "Y">>), False>>),
              auth |-> Obj(<<TENANT>>, <<Str(<<"Z", ",", "X">>)>>)]

\* a request whose values carry none
CtxScalars == [path |-> Obj(<<ID>>, <<Str(<<"X">>)>>),
               query |-> Obj(<<QKEY, NESTED>>,
                             <<Str(<<"1">>), Obj(<<ID>>, <<Str(<<"Y">>)>>)>>),
               body |-> Obj(<<PW, FLAG>>, <<Str(<<>>), False>>),
               auth |-> Obj(<<TENANT>>, <<Str(<<"Z">>)>>)]

HelperContexts == {CtxOne, CtxTwo, CtxCommas, CtxScalars}

DefaultCall(x, y) == <<"d", "e", "f", "a", "u", "l", "t", "(">> \o x \o <<",", " ">> \o y \o <<")">>

\* the texts written as an argument of default()
ArgTexts == {<<"'", "'">>,
             <<"'", "a", "'">>,
             <<"'", "a", ",", "b", "'">>,
             <<"0">>,
             <<"7">>,
             <<"n", "u", "l", "l">>,
             <<"q", "u", "e", "r", "y", ".", "n">>,
             <<"q", "u", "e", "r", "y", ".", "q">>,
             <<"b", "o", "d", "y", ".", "p", "w">>,
             <<"b", "o", "d", "y", ".", "f", "l", "a", "g">>,
             <<"a", "u", "t", "h", ".", "t", "e", "n", "a", "n", "t", "I", "d">>,
             <<"n", "o", "w", "(", ")">>,
             <<"u", "u", "i", "d", "(", ")">>,
             <<"n", "o", "p", "e", "(", ")">>,
             <<"'", "a", ")", "b", "'">>,
             <<"'", "a", "\\", "'", "b", "'">>,
             <<"'", "f", "(", ")", "'">>}

\* a call of default() written as the first argument of another call
NestedDefault == <<"d", "e", "f", "a", "u", "l", "t", "(", "n", "u", "l", "l", ",", "7", ")">>

\* the references written between the delimiters
RefTexts == {<<"p", "a", "t", "h", ".", "i", "d">>,
             <<"q", "u", "e", "r", "y", ".", "q">>,
             <<" ", "q", "u", "e", "r", "y", ".", "q", " ">>,
             <<"q", "u", "e", "r", "y", ".", "n">>,
             <<"q", "u", "e", "r", "y", ".", "n", "e", "s", "t", "e", "d", ".", "i", "d">>,
             <<"b", "o", "d", "y", ".", "p", "w">>,
             <<"b", "o", "d", "y", ".", "f", "l", "a", "g">>,
             <<"a", "u", "t", "h", ".", "t", "e", "n", "a", "n", "t", "I", "d">>,
             <<"n", "o", "p", "e", ".", "i", "d">>,
             <<"b", "o", "d", "y">>,
             <<"a", "u", "t", "h">>,
             <<"q", "u", "e", "r", "y", ".", "n", ".", "i", "d">>,
             <<"b", "o", "d", "y", ".", "p", "w", ".", "$", "n", "e", ".", "i", "d">>}

\* calls of other functions, built in and not
CallTexts == {<<"n", "o", "w", "(", ")">>,
              <<"u", "u", "i", "d", "(", ")">>,
              <<" ", "u", "u", "i", "d", "(", " ", ")", " ">>,
              <<"n", "o", "p", "e", "(", ")">>,
              <<"u", "p", "p", "e", "r", "(", "p", "a", "t", "h", ".", "i", "d", ")">>,
              <<"N", "o", "w", "(", ")">>,
              <<"n", "o", "w", "(", "n", "o", "p", "e", "(", ")", ")">>,
              <<"n", "o", "p", "e", "(", "u", "u", "i", "d", "(", ")", ")">>,
              <<"n", "o", "p", "e", "(", "u", "p", "p", "e", "r", "(", "1", ")", ")">>,
              <<"u", "u", "i", "d", "(", "'", "f", "(", ")", "'", ",", " ", "7", ")">>}

HelperExpressions ==
    RefTexts \cup CallTexts
    \cup {DefaultCall(x, y) : x \in ArgTexts \cup {NestedDefault}, y \in ArgTexts}

InitHelpers ==
    /\ helperInput \in HelperExpressions /\ helperOutput = NoResult
    /\ ctxA \in HelperContexts /\ ctxB = ctxA /\ phase = "build"
    /\ InitFlatIdle /\ InitMongoIdle /\ InitRouterIdle

\* helpers.resolveVariable(ref, context)
CallResolveVariable ==
    /\ phase = "build"
    /\ helperOutput' = [t |-> "resolveVariable",
                        value |-> resolveVariable(helperInput, ctxA)]
    /\ phase' = "done"
    /\ UNCHANGED <<helperInput, ctxA, ctxB, flatVars, mongoVars, routerVars>>

\* helpers.evaluateFunction(expr, context)
CallEvaluateFunction ==
    /\ phase = "build"
    /\ helperOutput' = [t |-> "evaluateFunction",
                        value |-> evaluateFunction(helperInput, ctxA)]
    /\ phase' = "done"
    /\ UNCHANGED <<helperInput, ctxA, ctxB, flatVars, mongoVars, routerVars>>

NextHelpers == CallResolveVariable \/ CallEvaluateFunction

SpecHelpers == InitHelpers /\ [][NextHelpers]_vars

ArrayStep == <<"[", "]">>

\* the key paths of a value: every chain of field names and operator keys
\* that leads to a nested value (array elements share one step)
RECURSIVE KeyPaths(_)
KeyPaths(value) ==
    IF value.t = "object"
    THEN UNION {{<<value.k[i]>>} \cup {<<value.k[i]>> \o q : q \in KeyPaths(value.v[i])}
                 : i \in 1..Len(value.k)}
    ELSE IF value.t = "array"
    THEN UNION {{<<ArrayStep>> \o q : q \in KeyPaths(value.v[i])} : i \in 1..Len(value.v)}
    ELSE {}

ArgsKeyPaths(out) == [i \in 1..Len(out.args) |-> KeyPaths(out.args[i])]

\* C3: for a fixed structured template and any two request contexts the
\* argument tuples built by MongoAdapter.interpolate have the same key
\* structure: the same field names and operator keys at every nesting
\* level, request values occupying leaf positions only.
C3_SameKeyStructure ==
    (phase = "done" /\ IsArtifact(mgA) /\ IsArtifact(mgB)) =>
        ArgsKeyPaths(mgA) = ArgsKeyPaths(mgB)
-----------------------------------------------------------------------------
(* response.ts: applyFieldMapping, shapeResponse (with jsonpointer.get)    *)

\* obj[key] = value : an existing key keeps its position
SetProp(obj, key, value) ==
    IF HasKey(obj, key)
    THEN Obj(obj.k, [i \in 1..Len(obj.k) |-> IF obj.k[i] = key THEN value ELSE obj.v[i]])
    ELSE Obj(Append(obj.k, key), Append(obj.v, value))

\* reverseMap[key] ?? key, reverseMap built entry by entry from fields
\* (a later entry for the same column replaces an earlier one)
ReverseMapped(fields, key) ==
    LET Last(hits) ==
            IF hits = {} THEN key
            ELSE fields.k[CHOOSE i \in hits : \A j \in hits : j <= i]
    IN  Last({i \in 1..Len(fields.k) : fields.v[i] = Str(key)})

\* the loop over Object.entries(row) that fills mapped
RECURSIVE MapEntries(_, _, _, _)
MapEntries(row, fields, i, mapped) ==
    IF i > Len(row.k) THEN mapped
    ELSE MapEntries(row, fields, i + 1,
                    SetProp(mapped, ReverseMapped(fields, row.k[i]), row.v[i]))

\* the rows with their column names left as the engine gave them
applyFieldMappingSkipped(rs, fields) == rs

\* rs is the list of rows, fields an object value or undefined
applyFieldMapping(rs, fields) ==
    IF ~Truthy(fields) THEN rs
    ELSE [r \in 1..Len(rs) |-> MapEntries(rs[r], fields, 1, EmptyObject)]

\* str.replace(/~[01]/g, ...) of jsonpointer
RECURSIVE untilde(_)
untilde(str) ==
    IF str = <<>> THEN <<>>
    ELSE IF StartsWithAt(str, <<"~", "1">>, 0) THEN <<"/">> \o untilde(SliceFrom(str, 2))
    ELSE IF StartsWithAt(str, <<"~", "0">>, 0) THEN <<"~">> \o untilde(SliceFrom(str, 2))
    ELSE <<Head(str)>> \o untilde(Tail(str))

\* the number a canonical array index names
RECURSIVE ParseIndex(_)
ParseIndex(tok) ==
    IF tok = <<>> THEN 0
    ELSE 10 * ParseIndex(SubSeq(tok, 1, Len(tok) - 1))
         + (CHOOSE d \in 0..9 : DigitChar(d) = tok[Len(tok)])

IsArrayIndex(tok) == AllDigits(tok) /\ StripLeadingZeros(tok) = tok

\* obj[tok] for an array or an object
Member(obj, tok) ==
    LET Element(index) ==
            IF IsArrayIndex(tok) /\ index < Len(obj.v) THEN obj.v[index + 1]
            ELSE IF tok = <<"l", "e", "n", "g", "t", "h">> THEN Num(NumberToString(Len(obj.v)))
            ELSE Undefined
    IN  IF obj.t = "array" THEN Element(IF IsArrayIndex(tok) THEN ParseIndex(tok) ELSE 0)
        ELSE GetProp(obj, tok)

\* the loop of jsonpointer.get over the compiled pointer; p counts from 1
RECURSIVE PointerWalk(_, _, _)
PointerWalk(obj, pointer, p) ==
    LET Stepped(next) ==
            IF p = Len(pointer) THEN next
            ELSE IF ~TypeofObject(next) \/ next.t = "null" THEN Undefined
            ELSE PointerWalk(next, pointer, p + 1)
    IN  Stepped(Member(obj, untilde(pointer[p])))

\* jsonpointer.get(obj, pointer): a pointer that does not start with "/"
\* (and is not empty) is rejected with an Error
jsonpointerGet(obj, pointer) ==
    LET Compiled(compiled) ==
            IF compiled[1] # <<>> THEN NativeError("Error")
            ELSE IF Len(compiled) = 1 THEN obj
            ELSE PointerWalk(obj, compiled, 2)
    IN  IF ~TypeofObject(obj) THEN NativeError("Error")
        ELSE Compiled(Split(pointer, "/"))

\* extraction from the rows as the engine gave them
shapeResponseUnmappedExtraction(rs, fields, returns) ==
    LET Extracted(got) ==
            IF IsThrow(got) THEN got
            ELSE IF IsNullish(got) THEN Null
            ELSE got
    IN  IF Truthy(returns) THEN Extracted(jsonpointerGet(Arr(rs), returns.v))
        ELSE Arr(IF Truthy(fields) THEN applyFieldMapping(rs, fields) ELSE rs)

\* shapeResponse(rows, {fields, returns}): the response body, or the error
\* jsonpointer throws
shapeResponse(rs, fields, returns) ==
    LET Extracted(got) ==
            IF IsThrow(got) THEN got
            ELSE IF IsNullish(got) THEN Null
            ELSE got
        Mapped(result) ==
            IF Truthy(returns) THEN Extracted(jsonpointerGet(result, returns.v))
            ELSE result
    IN  Mapped(Arr(IF Truthy(fields) THEN applyFieldMapping(rs, fields) ELSE rs))

-----------------------------------------------------------------------------
(* adapters: validateQuery, interpolate and execute behind the Adapter     *)
(* interface                                                               *)

PG == "pg"
MYSQL == "mysql"
MONGO == "mongo"

PgValidateQuery(query) ==
    IF query.t # "string" THEN Invalid("PostgreSQL adapter expects a string query")
    ELSE Valid

MysqlValidateQuery(query) ==
    IF query.t # "string" THEN Invalid("MySQL adapter expects a string query")
    ELSE Valid

\* adapter.validateQuery(query) of the adapter of the given kind
validateQuery(kind, query) ==
    CASE kind = PG -> PgValidateQuery(query)
      [] kind = MYSQL -> MysqlValidateQuery(query)
      [] kind = MONGO -> MongoValidateQuery(query)

\* adapter.interpolate(query, context, helpers); a flat adapter handed a
\* query that is not a string fails inside parseTemplate with a TypeError
interpolate(kind, query, ctx) ==
    CASE kind = PG ->
            IF query.t = "string" THEN PgInterpolate(query.v, ctx)
            ELSE NativeError("TypeError")
      [] kind = MYSQL ->
            IF query.t = "string" THEN MysqlInterpolate(query.v, ctx)
            ELSE NativeError("TypeError")
      [] kind = MONGO -> MongoInterpolate(query, ctx)

\* the template as an interpolateValue that assigned into the object it
\* walks would leave it
TemplateAfterInPlace(kind, query, ctx) ==
    IF kind = MONGO /\ query.t = "object" /\ ~IsThrow(interpolateValue(query, ctx))
    THEN interpolateValue(query, ctx)
    ELSE query

\* the template after adapter.interpolate(query, context, helpers): the
\* flat adapters slice a string, interpolateValue fills a new object or
\* array at every level, and none assigns into query
TemplateAfter(kind, query, ctx) == query

\* what the database engine answers to one execute: the rows (documents,
\* or the driver's result object as only row), or a failure: error is what
\* the driver throws, "nohandle" is db.collection(name) throwing
Reply(kind, rs, error) == [kind |-> kind, rows |-> rs, error |-> error]

\* error instanceof Error ? error.message : fallback
MessageOf(error) == ErrMessage(error)

QueryError(error) == OpenApiDbError("QUERY_ERROR", MessageOf(error), 500, error)

PgExecute(query, reply) ==
    IF reply.kind = "rows" THEN Arr(reply.rows) ELSE QueryError(reply.error)

MysqlExecute(query, reply) ==
    IF reply.kind = "rows" THEN Arr(reply.rows) ELSE QueryError(reply.error)

\* the object literal an operation builds from named fields of the driver's
\* result
Pick(result, keys) == Obj(keys, [i \in 1..Len(keys) |-> GetProp(result, keys[i])])

FirstOrUndefined(rs) == IF rs = <<>> THEN Undefined ELSE rs[1]

\* { _id: result.insertedId, ...document }
RECURSIVE SpreadInto(_, _, _)
SpreadInto(target, source, i) ==
    IF source.t # "object" \/ i > Len(source.k) THEN target
    ELSE SpreadInto(SetProp(target, source.k[i], source.v[i]), source, i + 1)

\* the switch of MongoAdapter.execute once the engine has answered
MongoSwitch(query, rs) ==
    LET counts == <<<<"m", "a", "t", "c", "h", "e", "d", "C", "o", "u", "n", "t">>,
                    <<"m", "o", "d", "i", "f", "i", "e", "d", "C", "o", "u", "n", "t">>,
                    <<"u", "p", "s", "e", "r", "t", "e", "d", "I", "d">>>>
        written == <<<<"i", "n", "s", "e", "r", "t", "e", "d", "C", "o", "u", "n", "t">>,
                     <<"m", "a", "t", "c", "h", "e", "d", "C", "o", "u", "n", "t">>,
                     <<"m", "o", "d", "i", "f", "i", "e", "d", "C", "o", "u", "n", "t">>,
                     <<"d", "e", "l", "e", "t", "e", "d", "C", "o", "u", "n", "t">>,
                     <<"u", "p", "s", "e", "r", "t", "e", "d", "C", "o", "u", "n", "t">>>>
        Case(operation, result) ==
            IF operation \in {OpFind, OpAggregate} THEN Arr(rs)
            ELSE IF operation \in {OpFindOne, OpFindOneAndUpdate, OpFindOneAndDelete}
            THEN Arr(IF Truthy(result) THEN <<result>> ELSE <<>>)
            ELSE IF operation = OpInsertOne
            THEN Arr(<<SpreadInto(Obj(<<<<"_", "i", "d">>>>,
                                      <<GetProp(result, <<"i", "n", "s", "e", "r", "t", "e", "d", "I", "d">>)>>),
                                  query.args[1], 1)>>)
            ELSE IF operation \in {OpUpdateOne, OpReplaceOne} THEN Arr(<<Pick(result, counts)>>)
            ELSE IF operation = OpDeleteOne
            THEN Arr(<<Pick(result, <<<<"d", "e", "l", "e", "t", "e", "d", "C", "o", "u", "n", "t">>>>)>>)
            ELSE IF operation = OpCount THEN Arr(<<Obj(<<OpCount>>, <<result>>)>>)
            ELSE IF operation = OpBulkWrite THEN Arr(<<Pick(result, written)>>)
            ELSE OpenApiDbError("QUERY_ERROR", operation, 500, Undefined)
    IN  Case(query.operation.v, FirstOrUndefined(rs))

\* this.db.collection(...) runs before the try block: what it throws leaves
\* execute as it is; a failure inside the try is wrapped
MongoExecute(query, reply) ==
    IF reply.kind = "nohandle" THEN reply.error
    ELSE IF reply.kind = "rows" THEN MongoSwitch(query, reply.rows)
    ELSE QueryError(reply.error)

\* adapter.execute(interpolated): the rows as an array value, or the error
execute(kind, query, reply) ==
    CASE kind = PG -> PgExecute(query, reply)
      [] kind = MYSQL -> MysqlExecute(query, reply)
      [] kind = MONGO -> MongoExecute(query, reply)

-----------------------------------------------------------------------------
(* parser.ts: parseSpec for a pre-parsed OpenAPI document                  *)

\* spec.paths is a list of path items [path, parameters, operations]; an
\* operation is [method, xDb, parameters], xDb being undefined or the
\* x-db extension [t |-> "xdb", query, adapter, fields, returns]; a
\* parameter is [name, in, type]
HTTP_METHODS == <<<<"g", "e", "t">>, <<"p", "o", "s", "t">>, <<"p", "u", "t">>, <<"d", "e", "l", "e", "t", "e">>, <<"p", "a", "t", "c", "h">>>>

XDb(query, adapter, fields, returns) ==
    [t |-> "xdb", query |-> query, adapter |-> adapter, fields |-> fields,
     returns |-> returns]

ParamKey(param) == <<param.in, param.name>>

\* merged.set(key, param) of a Map kept as a list in insertion order
MapSet(merged, param) ==
    IF \E i \in 1..Len(merged) : ParamKey(merged[i]) = ParamKey(param)
    THEN [i \in 1..Len(merged) |->
            IF ParamKey(merged[i]) = ParamKey(param) THEN param ELSE merged[i]]
    ELSE Append(merged, param)

RECURSIVE MapSetAll(_, _)
MapSetAll(merged, params) ==
    IF params = <<>> THEN merged ELSE MapSetAll(MapSet(merged, Head(params)), Tail(params))

mergeParameters(pathLevel, operationParams) ==
    MapSetAll(MapSetAll(<<>>, pathLevel), operationParams)

\* the operations of one path item that carry x-db, in HTTP_METHODS order
RouteOfMethod(pathItem, m) ==
    LET Compiled(operation) ==
            <<compileRoute(pathItem.path, HTTP_METHODS[m], operation.xDb,
                           mergeParameters(pathItem.parameters, operation.parameters))>>
        Found(ops) ==
            IF ops = {} THEN <<>>
            ELSE Compiled(pathItem.operations[CHOOSE i \in ops : TRUE])
    IN  Found({i \in 1..Len(pathItem.operations) :
                  /\ pathItem.operations[i].method = HTTP_METHODS[m]
                  /\ pathItem.operations[i].xDb.t = "xdb"})

RECURSIVE extractRoutes(_)
extractRoutes(items) ==
    IF items = <<>> THEN <<>>
    ELSE Join([m \in 1..Len(HTTP_METHODS) |-> RouteOfMethod(Head(items), m)])
         \o extractRoutes(Tail(items))

parseSpec(items) == extractRoutes(items)

-----------------------------------------------------------------------------
(* router.ts: resolveAdapterName, createRouter                             *)

\* adapters is the list of [name, kind] in Object.keys order
\* a lookup that would find every name
HasAdapterAny(configured, name) == TRUE

\* adapters[name] is there
HasAdapter(configured, name) == \E i \in 1..Len(configured) : configured[i].name = name

KindOf(configured, name) ==
    configured[CHOOSE i \in 1..Len(configured) : configured[i].name = name].kind

RouteLabel(r) == <<"R", "o", "u", "t", "e", " ">> \o ToUpperCase(r.method) \o <<" ">> \o r.originalPath

ValidationError(message) == OpenApiDbError("VALIDATION_ERROR", message, DefaultStatus, Undefined)

\* the adapter name as a string value, or the error thrown
resolveAdapterName(explicitAdapter, configured, r) ==
    IF Truthy(explicitAdapter)
    THEN IF ~HasAdapter(configured, explicitAdapter.v)
         THEN ValidationError(RouteLabel(r) \o <<" ", "u", "s", "e", "s", " ", "a", "d", "a", "p", "t", "e", "r", " ", "'">> \o explicitAdapter.v
                              \o <<"'", " ", "w", "h", "i", "c", "h", " ", "i", "s", " ", "n", "o", "t", " ", "c", "o", "n", "f", "i", "g", "u", "r", "e", "d">>)
         ELSE explicitAdapter
    ELSE IF Len(configured) = 0 THEN ValidationError(<<"N", "o", " ", "a", "d", "a", "p", "t", "e", "r", "s", " ", "c", "o", "n", "f", "i", "g", "u", "r", "e", "d">>)
    ELSE IF Len(configured) = 1 THEN Str(configured[1].name)
    ELSE ValidationError(RouteLabel(r)
            \o <<" ", "m", "u", "s", "t", " ", "s", "p", "e", "c", "i", "f", "y", " ", "x", "-", "d", "b", ".", "a", "d", "a", "p", "t", "e", "r", " ", "w", "h", "e", "n", " ", "m", "u", "l", "t", "i", "p", "l", "e", " ", "a", "d", "a", "p", "t", "e", "r", "s", " ", "a", "r", "e", " ", "c", "o", "n", "f", "i", "g", "u", "r", "e", "d">>)

\* a boot that would let every route pass
BootCheckSkipped(r, configured, resolver) == Undefined

\* a boot that would check the resolver and leave the adapter to the request
BootCheckAuthOnly(r, configured, resolver) ==
    IF r.usesAuth /\ ~resolver
    THEN ValidationError(RouteLabel(r)
            \o <<" ", "u", "s", "e", "s", " ", "$", "{", "{", " ", "a", "u", "t", "h", " ", "}", "}", " ", "b", "u", "t", " ", "n", "o", " ", "a", "u", "t", "h", " ", "r", "e", "s", "o", "l", "v", "e", "r", " ", "p", "r", "o", "v", "i", "d", "e", "d">>)
    ELSE Undefined

\* one round of the boot-time validation loop: undefined when the route
\* passes, else the error thrown
BootCheck(r, configured, resolver) ==
    LET Validated(validation) ==
            IF ~validation.valid
            THEN ValidationError(RouteLabel(r) \o <<":", " ">> \o <<validation.error>>)
            ELSE Undefined
        Selected(adapterName) ==
            IF IsThrow(adapterName) THEN adapterName
            ELSE Validated(validateQuery(KindOf(configured, adapterName.v), r.xDb.query))
    IN  IF r.usesAuth /\ ~resolver
        THEN ValidationError(RouteLabel(r)
                \o <<" ", "u", "s", "e", "s", " ", "$", "{", "{", " ", "a", "u", "t", "h", " ", "}", "}", " ", "b", "u", "t", " ", "n", "o", " ", "a", "u", "t", "h", " ", "r", "e", "s", "o", "l", "v", "e", "r", " ", "p", "r", "o", "v", "i", "d", "e", "d">>)
        ELSE Selected(resolveAdapterName(r.xDb.adapter, configured, r))

\* the boot-time validation loop from route i on: the routes whose query
\* adapter.validateQuery was called on, one call each, or the error thrown
RECURSIVE BootLoop(_, _, _, _)
BootLoop(rs, i, configured, resolver) ==
    LET Validated(rest) == IF IsThrow(rest) THEN rest ELSE Arr(<<i>> \o rest.v)
        Checked(checked) ==
            IF IsThrow(checked) THEN checked
            ELSE Validated(BootLoop(rs, i + 1, configured, resolver))
    IN  IF i > Len(rs) THEN Arr(<<>>)
        ELSE Checked(BootCheck(rs[i], configured, resolver))

\* createRouter(options): the routes of the Router returned (k lists the
\* routes validated on the way), or the error
createRouter(items, configured, resolver) ==
    LET Booted(rs, checked) ==
            IF IsThrow(checked) THEN checked
            ELSE [t |-> "router", k |-> checked.v, v |-> rs]
        Parsed(rs) == Booted(rs, BootLoop(rs, 1, configured, resolver))
    IN  Parsed(parseSpec(items))

-----------------------------------------------------------------------------
(* router.ts: parsePath, parseBody, parseQuery                             *)

parsePath(url) ==
    LET Cut(questionMark) ==
            IF questionMark = -1 THEN url ELSE Slice(url, 0, questionMark)
    IN  Cut(IndexOf(url, <<"?">>, 0))

REPLACEMENT_CHAR == "<U+FFFD>"

\* the decoding URLSearchParams applies to a name or a value: "+" is a
\* space, a well-formed escape is its character, anything else stays
RECURSIVE FormDecode(_, _)
FormDecode(s, i) ==
    LET Escape(b, n) ==
            IF b = -1 THEN <<CharAt(s, i)>> \o FormDecode(s, i + 1)
            ELSE IF b < 128 THEN <<AsciiTable[b + 1]>> \o FormDecode(s, i + 3)
            ELSE IF n # -1 /\ WellFormed(s, i, b, n)
            THEN <<NonAscii>> \o FormDecode(s, i + 3 * (n + 1))
            ELSE <<REPLACEMENT_CHAR>> \o FormDecode(s, i + 3)
        Byte(b) == Escape(b, Continuations(b))
    IN  IF i >= Len(s) THEN <<>>
        ELSE IF CharAt(s, i) = "+" THEN <<" ">> \o FormDecode(s, i + 1)
        ELSE Byte(EscapedByte(s, i))

\* one name=value pair of the query string
SearchParam(pair) ==
    LET At(eq) ==
            IF eq = -1 THEN [key |-> FormDecode(pair, 0), value |-> <<>>]
            ELSE [key |-> FormDecode(Slice(pair, 0, eq), 0),
                  value |-> FormDecode(SliceFrom(pair, eq + 1), 0)]
    IN  At(IndexOf(pair, <<"=">>, 0))

\* new URLSearchParams(queryString).entries()
URLSearchParams(queryString) ==
    LET Entries(kept) == [i \in 1..Len(kept) |-> SearchParam(kept[i])]
    IN  Entries(SelectSeq(Split(IF CharAt(queryString, 0) = "?"
                                THEN SliceFrom(queryString, 1) ELSE queryString, "&"),
                          LAMBDA p : p # <<>>))

\* the for loop of parseQuery over the entries
RECURSIVE QueryLoop(_, _, _, _)
QueryLoop(entries, i, arrayParams, result) ==
    LET Strings(parts) == Arr([j \in 1..Len(parts) |-> Str(parts[j])])
    IN  IF i > Len(entries) THEN result
        ELSE QueryLoop(entries, i + 1, arrayParams,
                SetProp(result, entries[i].key,
                        IF entries[i].key \in arrayParams
                        THEN Strings(Split(entries[i].value, ","))
                        ELSE Str(entries[i].value)))

parseQuery(url, parameters) ==
    LET arrayParams == {parameters[i].name : i \in
                          {j \in 1..Len(parameters) :
                              parameters[j].in = "query" /\ parameters[j].type = "array"}}
        From(questionMark) ==
            IF questionMark = -1 THEN EmptyObject
            ELSE QueryLoop(URLSearchParams(SliceFrom(url, questionMark + 1)), 1,
                           arrayParams, EmptyObject)
    IN  From(IndexOf(url, <<"?">>, 0))

\* JSON.parse for texts made of objects, arrays, strings without escapes,
\* unsigned integers and null with no white space; any other text is a
\* SyntaxError.  A parse result is [ok, value, next].
JsonFail == [ok |-> FALSE, value |-> Undefined, next |-> 0]
JsonOk(value, next) == [ok |-> TRUE, value |-> value, next |-> next]

QUOTE == "\""

JsonString(s, i) ==
    LET Closed(close) ==
            IF CharAt(s, i) # QUOTE \/ close = -1
               \/ Includes(Slice(s, i + 1, close), <<"\\">>)
            THEN JsonFail
            ELSE JsonOk(Str(Slice(s, i + 1, close)), close + 1)
    IN  Closed(IndexOf(s, <<QUOTE>>, i + 1))

RECURSIVE DigitRun(_, _)
DigitRun(s, i) == IF CharAt(s, i) \in Digits THEN 1 + DigitRun(s, i + 1) ELSE 0

RECURSIVE JsonValue(_, _)
RECURSIVE JsonMembers(_, _, _)
RECURSIVE JsonElements(_, _, _)
JsonValue(s, i) ==
    LET Number(n) ==
            IF CharAt(s, i) = "0" /\ n > 1 THEN JsonFail
            ELSE JsonOk(Num(Slice(s, i, i + n)), i + n)
        At(c) ==
            IF c = QUOTE THEN JsonString(s, i)
            ELSE IF StartsWithAt(s, <<"n", "u", "l", "l">>, i) THEN JsonOk(Null, i + 4)
            ELSE IF c \in Digits THEN Number(DigitRun(s, i))
            ELSE IF c = "{"
            THEN IF CharAt(s, i + 1) = "}" THEN JsonOk(EmptyObject, i + 2)
                 ELSE JsonMembers(s, i + 1, EmptyObject)
            ELSE IF c = "["
            THEN IF CharAt(s, i + 1) = "]" THEN JsonOk(Arr(<<>>), i + 2)
                 ELSE JsonElements(s, i + 1, <<>>)
            ELSE JsonFail
    IN  At(CharAt(s, i))

\* "key":value pairs after "{" or ","
JsonMembers(s, i, acc) ==
    LET Grown(grown, next) ==
            IF CharAt(s, next) = "}" THEN JsonOk(grown, next + 1)
            ELSE IF CharAt(s, next) = "," THEN JsonMembers(s, next + 1, grown)
            ELSE JsonFail
        Keyed(key, member) ==
            IF ~member.ok THEN JsonFail
            ELSE Grown(SetProp(acc, key.value.v, member.value), member.next)
        Named(key) ==
            Keyed(key, IF key.ok /\ CharAt(s, key.next) = ":"
                        THEN JsonValue(s, key.next + 1) ELSE JsonFail)
    IN  Named(JsonString(s, i))

\* values after "[" or ","
JsonElements(s, i, acc) ==
    LET Grown(grown, next) ==
            IF CharAt(s, next) = "]" THEN JsonOk(Arr(grown), next + 1)
            ELSE IF CharAt(s, next) = "," THEN JsonElements(s, next + 1, grown)
            ELSE JsonFail
        Element(element) ==
            IF ~element.ok THEN JsonFail
            ELSE Grown(Append(acc, element.value), element.next)
    IN  Element(JsonValue(s, i))

JSONparse(text) ==
    LET Parsed(parsed) ==
            IF parsed.ok /\ parsed.next = Len(text) THEN parsed.value
            ELSE NativeError("SyntaxError")
    IN  Parsed(JsonValue(text, 0))

\* parseBody(req): req.body is the pre-parsed body or undefined; req.stream
\* is what the request stream delivers, [data, error]
parseBody(request) ==
    LET Text(parsed) == IF IsThrow(parsed) THEN Str(request.stream.data) ELSE parsed
    IN  IF request.body.t # "undefined" THEN request.body
        ELSE IF request.stream.error THEN NativeError("Error")
        ELSE IF request.stream.data = <<>> THEN Undefined
        ELSE Text(JSONparse(request.stream.data))

-----------------------------------------------------------------------------
(* router.ts: RouterImpl.handle, cut at its three awaits                   *)

Response(status, body) ==
    [t |-> "response", k |-> <<>>, v |-> <<"RouterResponse", "", status, <<>>, body>>]
ResponseStatus(r) == r.v[3]
ResponseBody(r) == r.v[5]

\* the steps of handle in program order
HandleSteps == <<"match", "authenticate", "collect", "select", "interpolate",
                 "execute", "shape", "notfound">>

configVars == <<paths, adapters, auth, routes, boot>>
requestVars == <<req, route, matched, authContext, context, artifact, engine, rows,
                 outcome, trace>>

NoReply == Reply("none", <<>>, Undefined)

\* the locals of one call of handle
Frame ==
    [pc |-> pc, route |-> route, matched |-> matched, authContext |-> authContext,
     context |-> context, artifact |-> artifact, rows |-> rows, outcome |-> outcome,
     trace |-> trace]

FreshFrame ==
    [pc |-> "idle", route |-> 0, matched |-> NoResult, authContext |-> Null,
     context |-> NoResult, artifact |-> NoResult, rows |-> <<>>, outcome |-> NoResult,
     trace |-> <<>>]

Install(f) ==
    /\ pc' = f.pc /\ route' = f.route /\ matched' = f.matched
    /\ authContext' = f.authContext /\ context' = f.context
    /\ artifact' = f.artifact /\ rows' = f.rows /\ outcome' = f.outcome
    /\ trace' = f.trace

Throw(f, error) == [f EXCEPT !.pc = "done", !.outcome = error]
Return(f, value) == [f EXCEPT !.pc = "done", !.outcome = value]
Enter(f, step) == [f EXCEPT !.trace = Append(@, step)]

AuthResolverMissing ==
    OpenApiDbError("AUTH_RESOLVER_MISSING",
                   <<"R", "o", "u", "t", "e", " ", "u", "s", "e", "s", " ", "$", "{", "{", " ", "a", "u", "t", "h", " ", "}", "}", " ", "b", "u", "t", " ", "n", "o", " ", "a", "u", "t", "h", " ", "r", "e", "s", "o", "l", "v", "e", "r", " ", "p", "r", "o", "v", "i", "d", "e", "d">>, 500, Undefined)
AuthRequired == OpenApiDbError("AUTH_REQUIRED", <<"A", "u", "t", "h", "e", "n", "t", "i", "c", "a", "t", "i", "o", "n", " ", "r", "e", "q", "u", "i", "r", "e", "d">>, 401, Undefined)
NotFound == OpenApiDbError("NOT_FOUND", <<"R", "e", "s", "o", "u", "r", "c", "e", " ", "n", "o", "t", " ", "f", "o", "u", "n", "d">>, 404, Undefined)

\* handle up to its first await: match the route, call the resolver or
\* parseBody
HandleToAwait(f, rs, resolver, request) ==
    LET Found(f2, r) ==
            IF r.usesAuth
            THEN IF ~resolver THEN Throw(Enter(f2, "authenticate"), AuthResolverMissing)
                 ELSE [Enter(f2, "authenticate") EXCEPT !.pc = "auth"]
            ELSE [Enter(f2, "collect") EXCEPT !.pc = "body"]
        Matched(f1, match) ==
            IF IsThrow(match) THEN Throw(f1, match)
            ELSE IF match.t = "null" THEN Return(f1, Null)
            ELSE Found([f1 EXCEPT !.route = match.route, !.matched = match.pathParams],
                       rs[match.route])
    IN  Matched(Enter(f, "match"),
                matchRoute(rs,
                           IF request.method.t = "string" THEN ToLowerCase(request.method.v)
                           ELSE <<"g", "e", "t">>,
                           parsePath(IF request.url.t = "string" THEN request.url.v
                                     ELSE <<"/">>)))

\* a handle that would take any answer of the resolver as a context
IsAuthenticatedAlways(resolved) == TRUE

\* !authContext is false
IsAuthenticated(resolved) == Truthy(resolved)

\* handle from the resolver's answer to the call of parseBody
HandleAfterAuth(f, resolved) ==
    IF IsThrow(resolved) THEN Throw(f, resolved)
    ELSE IF ~IsAuthenticated(resolved)
    THEN Throw([f EXCEPT !.authContext = resolved], AuthRequired)
    ELSE [Enter(f, "collect") EXCEPT !.authContext = resolved, !.pc = "body"]

\* handle from the body to the call of adapter.execute
HandleAfterBody(f, rs, configured, request, body) ==
    LET Interpolated(f2, interpolated) ==
            IF IsThrow(interpolated) THEN Throw(f2, interpolated)
            ELSE [Enter(f2, "execute") EXCEPT !.artifact = interpolated, !.pc = "exec"]
        Selected(f1, r, ctx, adapterName) ==
            IF IsThrow(adapterName) THEN Throw(f1, adapterName)
            ELSE Interpolated(Enter(f1, "interpolate"),
                              interpolate(KindOf(configured, adapterName.v), r.xDb.query, ctx))
        Built(r, ctx) ==
            Selected(Enter([f EXCEPT !.context = ctx], "select"), r, ctx,
                     resolveAdapterName(r.xDb.adapter, configured, r))
        Parsed(r, url) ==
            Built(r, [path |-> f.matched, query |-> parseQuery(url, r.parameters),
                      body |-> body, auth |-> f.authContext])
    IN  IF IsThrow(body) THEN Throw(f, body)
        ELSE Parsed(rs[f.route],
                    IF request.url.t = "string" THEN request.url.v ELSE <<"/">>)

\* route.xDb.returns?.startsWith("/0") && responseBody === null
IsNotFound(returns, responseBody) ==
    /\ returns.t = "string"
    /\ StartsWithAt(returns.v, <<"/", "0">>, 0)
    /\ responseBody.t = "null"

\* the routes after handle ran from the body to the call of adapter.execute
\* and ended in frame f: as adapter.interpolate, when entered, leaves the
\* template of the matched route
RoutesAfterBody(f, rs, configured) ==
    IF \E n \in 1..Len(f.trace) : f.trace[n] = "interpolate"
    THEN [rs EXCEPT ![f.route].xDb.query =
            TemplateAfter(KindOf(configured,
                                 resolveAdapterName(rs[f.route].xDb.adapter, configured,
                                                    rs[f.route]).v),
                          rs[f.route].xDb.query, f.context)]
    ELSE rs

\* handle from the answer of adapter.execute to its end
HandleAfterExecute(f, rs, result) ==
    LET Shaped(f1, r, responseBody) ==
            IF IsThrow(responseBody) THEN Throw(f1, responseBody)
            ELSE IF IsNotFound(r.xDb.returns, responseBody)
            THEN Throw(Enter(f1, "notfound"), NotFound)
            ELSE Return(Enter(f1, "notfound"), Response(200, responseBody))
        Rows(r) ==
            Shaped(Enter([f EXCEPT !.rows = result.v], "shape"), r,
                   shapeResponse(result.v, r.xDb.fields, r.xDb.returns))
    IN  IF IsThrow(result) THEN Throw(f, result)
        ELSE Rows(rs[f.route])

-----------------------------------------------------------------------------
(* Router under test: documents, adapter sets, requests, engine answers    *)

MaxRows == 2

Operation(method, xDb, parameters) ==
    [method |-> method, xDb |-> xDb, parameters |-> parameters]
PathItem(path, parameters, operations) ==
    [path |-> path, parameters |-> parameters, operations |-> operations]

ArrayParamQ == [name |-> <<"q">>, in |-> "query", type |-> "array"]

ItemPath ==
    PathItem(<<"/", "i", "/", "{", "i", "d", "}">>, <<>>,
        <<Operation(<<"g", "e", "t">>,
                    XDb(Str(<<"i", "=", "$", "{", "{", " ", "p", "a", "t", "h", ".", "i", "d", " ", "}", "}", ",", "$", "{", "{", " ", "q", "u", "e", "r", "y", ".", "q", " ", "}", "}">>), Undefined,
                        Obj(<<ID>>, <<Str(<<"u", "s", "e", "r", "_", "i", "d">>)>>), Str(<<"/", "0">>)),
                    <<ArrayParamQ>>)>>)
TenantPath ==
    PathItem(<<"/", "t">>, <<>>,
        <<Operation(<<"g", "e", "t">>,
                    XDb(Str(<<"t", "=", "$", "{", "{", " ", "a", "u", "t", "h", ".", "t", "e", "n", "a", "n", "t", "I", "d", " ", "}", "}">>), Undefined, Undefined, Str(<<"/", "0">>)),
                    <<>>)>>)
LegacyPath ==
    PathItem(<<"/", "l">>, <<>>,
        <<Operation(<<"g", "e", "t">>,
                    XDb(Str(<<"t", "=", "$", "a", "u", "t", "h", ".", "t", "e", "n", "a", "n", "t", "I", "d">>), Undefined, Undefined, Undefined),
                    <<>>)>>)
CountPath ==
    PathItem(<<"/", "c">>, <<>>,
        <<Operation(<<"g", "e", "t">>, XDb(Str(<<"c">>), Undefined, Undefined, Str(<<"/", "0", "/", "c", "o", "u", "n", "t">>)),
                    <<>>)>>)
SecondPath ==
    PathItem(<<"/", "n">>, <<>>,
        <<Operation(<<"g", "e", "t">>, XDb(Str(<<"n">>), Undefined, Undefined, Str(<<"/", "1">>)), <<>>)>>)
FaultyPath ==
    PathItem(<<"/", "f">>, <<>>,
        <<Operation(<<"g", "e", "t">>, XDb(Str(<<"$", "{", "{", " ", "n", "o", "p", "e", "(", ")", " ", "}", "}">>), Undefined, Undefined, Undefined),
                    <<>>)>>)
DocPath ==
    PathItem(<<"/", "d">>, <<>>,
        <<Operation(<<"p", "o", "s", "t">>,
                    XDb(Obj(<<COLLECTION, OPERATION, FILTER>>,
                            <<Str(USERS), Str(OpFind),
                              Obj(<<TENANT>>, <<Str(<<"$", "{", "{", " ", "a", "u", "t", "h", ".", "t", "e", "n", "a", "n", "t", "I", "d", " ", "}", "}">>)>>)>>),
                        Str(<<"m", "o", "n", "g", "o">>), Undefined, Str(<<"/", "0">>)),
                    <<>>)>>)
HealthPath == PathItem(<<"/", "h">>, <<>>, <<Operation(<<"g", "e", "t">>, Undefined, <<>>)>>)
\* a literal path that the parameterized /i/{id} also matches
NewPath ==
    PathItem(<<"/", "i", "/", "n", "e", "w">>, <<>>,
        <<Operation(<<"g", "e", "t">>,
                    XDb(Str(<<"w">>), Undefined,
                        Obj(<<ID>>, <<Str(<<"u", "s", "e", "r", "_", "i", "d">>)>>), Undefined),
                    <<>>)>>)
\* a path that writes the key of the item in parentheses
KeyPath ==
    PathItem(<<"/", "o", "(", "{", "i", "d", "}", ")">>, <<>>,
        <<Operation(<<"g", "e", "t">>,
                    XDb(Str(<<"o", "=", "$", "{", "{", " ", "p", "a", "t", "h", ".", "i", "d", " ", "}", "}">>), Undefined, Undefined, Undefined),
                    <<>>)>>)
\* a versioned path, written with a dot
VersionPath ==
    PathItem(<<"/", "v", "1", ".", "0">>, <<>>,
        <<Operation(<<"g", "e", "t">>,
                    XDb(Str(<<"v">>), Undefined,
                        Obj(<<ID>>, <<Str(<<"u", "s", "e", "r", "_", "i", "d">>)>>),
                        Str(<<"/", "0", "/", "i", "d">>)),
                    <<>>)>>)

Documents == {<<ItemPath, CountPath, SecondPath, HealthPath>>,
              <<TenantPath>>,
              <<LegacyPath, FaultyPath>>,
              <<DocPath>>,
              <<NewPath, ItemPath, KeyPath>>,
              <<ItemPath, NewPath, VersionPath>>}

PgConfigured == [name |-> <<"p", "g">>, kind |-> PG]
MysqlConfigured == [name |-> <<"m", "y", "s", "q", "l">>, kind |-> MYSQL]
MongoConfigured == [name |-> <<"m", "o", "n", "g", "o">>, kind |-> MONGO]

AdapterSets == {<<>>, <<PgConfigured>>, <<MysqlConfigured>>, <<MongoConfigured>>,
                <<PgConfigured, MongoConfigured>>}

Methods == {<<"G", "E", "T">>, <<"P", "O", "S", "T">>, <<"G", "e", "t">>}
Urls == {<<"/", "i", "/", "n", "e", "w">>, <<"/", "i", "/", "X", "/", "Y">>, <<"/", "v", "1", ".", "0">>, <<"/", "v", "1", "X", "0">>,
         <<"/", "i", "/", "X", "?", "q", "=", "X", ",", "Y", "&", "q", "=", "Z">>, <<"/", "i", "/", "a", "%", "2", "0", "b">>, <<"/", "i", "/", "%">>, <<"/", "c">>, <<"/", "n">>, <<"/", "t">>, <<"/", "l">>,
         <<"/", "f">>, <<"/", "d">>, <<"/", "h">>, <<"/", "o", "X">>, <<"/", "o", "(", "X", ")">>}

Stream(data, error) == [data |-> data, error |-> error]

\* a body parsed by the framework, or what the request stream delivers
Bodies == {[body |-> Obj(<<PW>>, <<Str(<<"X">>)>>), stream |-> Stream(<<>>, FALSE)],
           [body |-> Undefined, stream |-> Stream(<<"{", "\"", "p", "w", "\"", ":", "\"", "X", "\"", "}">>, FALSE)],
           [body |-> Undefined, stream |-> Stream(<<"p", "w">>, FALSE)],
           [body |-> Undefined, stream |-> Stream(<<>>, TRUE)]}

\* what the auth resolver answers for the request: nothing, a context, or
\* a rejection
Credentials == {Null, Obj(<<TENANT>>, <<Str(<<"Z">>)>>), NativeError("Error")}

Requests ==
    {[method |-> Str(m), url |-> Str(u), body |-> b.body, stream |-> b.stream,
      credentials |-> c] : m \in Methods, u \in Urls, b \in Bodies, c \in Credentials}

RowOne == Obj(<<<<"u", "s", "e", "r", "_", "i", "d">>, <<"c", "o", "u", "n", "t">>>>, <<Str(<<"1">>), Null>>)
RowTwo == Obj(<<<<"u", "s", "e", "r", "_", "i", "d">>, <<"c", "o", "u", "n", "t">>>>, <<Str(<<"2">>), Num(<<"7">>)>>)

\* a row that has a column named as the api name of another column
RowThree == Obj(<<<<"u", "s", "e", "r", "_", "i", "d">>, ID>>, <<Str(<<"3">>), Str(<<"9">>)>>)

RowSets == UNION {[1..n -> {RowOne, RowTwo, RowThree}] : n \in 0..MaxRows}

DriverError == Error("DatabaseError", "", <<"t", "i", "m", "e", "o", "u", "t">>, 0, Undefined)
HandleError == Error("MongoInvalidArgumentError", "", <<"b", "a", "d", " ", "n", "a", "m", "e">>, 0, Undefined)

\* the answers of the engine behind an adapter of the given kind
EngineReplies(kind) ==
    {Reply("rows", rs, Undefined) : rs \in RowSets}
    \cup {Reply("error", <<>>, DriverError)}
    \cup (IF kind = MONGO THEN {Reply("nohandle", <<>>, HandleError)} ELSE {})

\* the kind of the adapter handle selected for the matched route
SelectedKind ==
    KindOf(adapters, resolveAdapterName(routes[route].xDb.adapter, adapters,
                                        routes[route]).v)

Init ==
    /\ paths \in Documents /\ adapters \in AdapterSets /\ auth \in BOOLEAN
    /\ routes = <<>> /\ boot = [t |-> "config"] /\ pc = "idle"
    /\ InitRequestIdle /\ InitPairIdle
    /\ InitFlatIdle /\ InitCtxIdle /\ InitMongoIdle /\ InitHelperIdle

\* createRouter(options)
CreateRouter ==
    /\ boot.t = "config"
    /\ \E made \in {createRouter(paths, adapters, auth)} :
          IF IsThrow(made) THEN boot' = made /\ routes' = routes
          ELSE boot' = [t |-> "ready", validated |-> made.k] /\ routes' = made.v
    /\ UNCHANGED <<paths, adapters, auth, pc, requestVars, flatVars, ctxVars, mongoVars, helperVars, inflight>>

\* router.handle(req) is called and runs to its first await
Handle ==
    /\ boot.t = "ready" /\ pc = "idle"
    /\ \E r \in Requests :
          /\ req' = r
          /\ Install(HandleToAwait(FreshFrame, routes, auth, r))
    /\ engine' = NoReply
    /\ UNCHANGED <<configVars, flatVars, ctxVars, mongoVars, helperVars, inflight>>

\* await this.auth(req) settles
AuthSettles ==
    /\ pc = "auth"
    /\ Install(HandleAfterAuth(Frame, req.credentials))
    /\ UNCHANGED <<req, engine, configVars, flatVars, ctxVars, mongoVars, helperVars, inflight>>

\* await this.parseBody(req) settles
BodySettles ==
    /\ pc = "body"
    /\ \E f \in {HandleAfterBody(Frame, routes, adapters, req, parseBody(req))} :
          /\ Install(f)
          /\ routes' = RoutesAfterBody(f, routes, adapters)
    /\ UNCHANGED <<req, engine, paths, adapters, auth, boot, flatVars, ctxVars, mongoVars,
                   helperVars, inflight>>

\* await adapter.execute(interpolated) settles
ExecuteSettles ==
    /\ pc = "exec"
    /\ \E kind \in {SelectedKind} :
          \E reply \in EngineReplies(kind) :
             /\ engine' = reply
             /\ Install(HandleAfterExecute(Frame, routes, execute(kind, artifact, reply)))
    /\ UNCHANGED <<req, configVars, flatVars, ctxVars, mongoVars, helperVars, inflight>>

\* the caller takes what handle returned or threw
Deliver ==
    /\ pc = "done"
    /\ req' = NoResult /\ engine' = NoReply
    /\ Install(FreshFrame)
    /\ UNCHANGED <<configVars, flatVars, ctxVars, mongoVars, helperVars, inflight>>

Next == CreateRouter \/ Handle \/ AuthSettles \/ BodySettles \/ ExecuteSettles \/ Deliver

Spec == Init /\ [][Next]_vars

-----------------------------------------------------------------------------
(* Two calls of handle() in flight together on one Router                  *)

Calls == {1, 2}

IdleCall == [req |-> NoResult, engine |-> NoReply, frame |-> FreshFrame]

PairDocuments == {<<ItemPath, LegacyPath>>}
PairAdapterSets == {<<PgConfigured>>, <<MysqlConfigured>>}

PairUrls == {<<"/", "i", "/", "X", "?", "q", "=", "X", ",", "Y", "&", "q", "=", "Z">>,
             <<"/", "i", "/", "a", "%", "2", "0", "b">>, <<"/", "l">>}

PairRequests ==
    {r \in Requests :
        /\ r.method = Str(<<"G", "E", "T">>) /\ r.url.v \in PairUrls
        /\ r.body.t = "object" \/ r.stream.error
        /\ r.credentials.t \in {"null", "object"}}

PairReplies(kind) == {reply \in EngineReplies(kind) : Len(reply.rows) <= 1}

InitPair ==
    /\ paths \in PairDocuments /\ adapters \in PairAdapterSets /\ auth = TRUE
    /\ routes = <<>> /\ boot = [t |-> "config"] /\ pc = "off"
    /\ InitRequestIdle
    /\ inflight = [i \in Calls |-> IdleCall]
    /\ InitFlatIdle /\ InitCtxIdle /\ InitMongoIdle /\ InitHelperIdle

\* the request of another call, as an instance field set by every call
\* would hold it
RequestOfFirst(i) ==
    IF inflight[1].req = NoResult THEN inflight[i].req ELSE inflight[1].req

\* req, the parameter of call i of handle
RequestOf(i) == inflight[i].req

\* the locals of call i of handle
FrameOf(i) == inflight[i].frame

\* the kind of the adapter handle selected in frame f
KindFor(f) ==
    KindOf(adapters, resolveAdapterName(routes[f.route].xDb.adapter, adapters,
                                        routes[f.route]).v)

pairRest == <<configVars, pc, requestVars, flatVars, ctxVars, mongoVars, helperVars>>

\* router.handle(req) is called while another call may be suspended
StartCall(i) ==
    /\ boot.t = "ready" /\ FrameOf(i).pc = "idle"
    /\ \E r \in PairRequests :
          inflight' = [inflight EXCEPT ![i] =
                          [req |-> r, engine |-> NoReply,
                           frame |-> HandleToAwait(FreshFrame, routes, auth, r)]]
    /\ UNCHANGED pairRest

\* await this.auth(req) of call i settles
AuthSettlesFor(i) ==
    /\ FrameOf(i).pc = "auth"
    /\ inflight' = [inflight EXCEPT ![i].frame =
                        HandleAfterAuth(FrameOf(i), RequestOf(i).credentials)]
    /\ UNCHANGED pairRest

\* await this.parseBody(req) of call i settles
BodySettlesFor(i) ==
    /\ FrameOf(i).pc = "body"
    /\ \E f \in {HandleAfterBody(FrameOf(i), routes, adapters, RequestOf(i),
                                  parseBody(RequestOf(i)))} :
          /\ inflight' = [inflight EXCEPT ![i].frame = f]
          /\ routes' = RoutesAfterBody(f, routes, adapters)
    /\ UNCHANGED <<paths, adapters, auth, boot, pc, requestVars, flatVars, ctxVars,
                   mongoVars, helperVars>>

\* await adapter.execute(interpolated) of call i settles
ExecuteSettlesFor(i) ==
    /\ FrameOf(i).pc = "exec"
    /\ \E kind \in {KindFor(FrameOf(i))} :
          \E reply \in PairReplies(kind) :
             inflight' = [inflight EXCEPT
                             ![i].engine = reply,
                             ![i].frame = HandleAfterExecute(FrameOf(i), routes,
                                              execute(kind, FrameOf(i).artifact, reply))]
    /\ UNCHANGED pairRest

\* the caller of call i takes what handle returned or threw
DeliverFor(i) ==
    /\ FrameOf(i).pc = "done"
    /\ inflight' = [inflight EXCEPT ![i] = IdleCall]
    /\ UNCHANGED pairRest

NextPair ==
    \/ CreateRouter
    \/ \E i \in Calls : StartCall(i)
    \/ \E i \in Calls : AuthSettlesFor(i)
    \/ \E i \in Calls : BodySettlesFor(i)
    \/ \E i \in Calls : ExecuteSettlesFor(i)
    \/ \E i \in Calls : DeliverFor(i)

SpecPair == InitPair /\ [][NextPair]_vars

Steps == {trace[i] : i \in 1..Len(trace)}

AUTH_PREFIX == <<"a", "u", "t", "h", ".">>

\* the template holds an expression that names the auth namespace
RECURSIVE ReferencesAuth(_)
ReferencesAuth(value) ==
    IF value.t = "string"
    THEN \E i \in 1..Len(parseTemplate(value.v)) :
            Includes(parseTemplate(value.v)[i].inner, AUTH_PREFIX)
    ELSE IF value.t \in {"object", "array"}
    THEN \E i \in 1..Len(value.v) : ReferencesAuth(value.v[i])
    ELSE FALSE

Failed(code, status) ==
    /\ IsOpenApiDbError(outcome) /\ ErrCode(outcome) = code /\ ErrStatus(outcome) = status

\* C4: a request that matches a route whose template references the auth
\* namespace, with a resolver configured that yields null for it, fails with
\* AUTH_REQUIRED and status 401, and neither interpolate nor execute is
\* entered for it.
C4_AuthRequiredOnNull ==
    (route # 0 /\ ReferencesAuth(routes[route].xDb.query) /\ auth
               /\ req.credentials.t = "null")
        => /\ "interpolate" \notin Steps /\ "execute" \notin Steps
           /\ pc = "done" => Failed("AUTH_REQUIRED", 401)

\* C5: once createRouter has run on a document with a route whose template
\* (string or object) references the auth namespace and no resolver is
\* configured, it has failed with VALIDATION_ERROR and no Router exists.
C5_NoRouterWithoutResolver ==
    (boot.t # "config" /\ ~auth
        /\ \E i \in 1..Len(parseSpec(paths)) :
              ReferencesAuth(parseSpec(paths)[i].xDb.query))
        => /\ IsOpenApiDbError(boot) /\ ErrCode(boot) = "VALIDATION_ERROR"
           /\ pc = "idle" /\ req = NoResult

\* C6: whatever handle throws is an OpenApiDbError that carries a code and
\* an HTTP status.
C6_OnlyTypedErrors ==
    (pc = "done" /\ IsThrow(outcome))
        => /\ IsOpenApiDbError(outcome)
           /\ ErrCode(outcome) # "" /\ ErrStatus(outcome) >= 400

\* C7: when the engine fails during execute (for MongoAdapter also while
\* the collection handle is obtained), execute throws an OpenApiDbError
\* with code QUERY_ERROR, status 500 and the original error as details.
C7_EngineFailureIsQueryError ==
    (pc = "done" /\ engine.kind \in {"error", "nohandle"})
        => /\ Failed("QUERY_ERROR", 500)
           /\ ErrDetails(outcome) = engine.error

\* the row with every column that the field map names renamed to its api
\* name; of two columns that end under one name the later one gives the
\* value
Renamed(row, fields) ==
    LET Name(i) ==
            IF Truthy(fields) /\ \E a \in 1..Len(fields.k) : fields.v[a] = Str(row.k[i])
            THEN fields.k[CHOOSE a \in 1..Len(fields.k) : fields.v[a] = Str(row.k[i])]
            ELSE row.k[i]
        Firsts == {i \in 1..Len(row.k) : \A j \in 1..(i - 1) : Name(j) # Name(i)}
        Kept(order) ==
            Obj([n \in 1..Len(order) |-> Name(order[n])],
                [n \in 1..Len(order) |->
                    row.v[CHOOSE j \in 1..Len(row.k) :
                            /\ Name(j) = Name(order[n])
                            /\ \A k \in (j + 1)..Len(row.k) : Name(k) # Name(j)]])
    IN  Kept(CHOOSE order \in [1..Cardinality(Firsts) -> Firsts] :
                \A a, b \in 1..Cardinality(Firsts) : a < b => order[a] < order[b])

SINGLE_ITEM == Str(<<"/", "0">>)

\* C8: on a route whose extraction pointer is /0, an empty row-set from the
\* adapter makes handle fail with NOT_FOUND and status 404, and a non-empty
\* one makes it return status 200 with the first row, field mapping
\* applied, as body.
C8_SingleItemPointer ==
    (pc = "done" /\ "shape" \in Steps /\ routes[route].xDb.returns = SINGLE_ITEM)
        => IF rows = <<>> THEN Failed("NOT_FOUND", 404)
           ELSE /\ outcome.t = "response" /\ ResponseStatus(outcome) = 200
                /\ ResponseBody(outcome) = Renamed(rows[1], routes[route].xDb.fields)

\* a first row whose column was renamed reaches the body
C8_Witness ==
    /\ pc = "done" /\ "shape" \in Steps /\ routes[route].xDb.returns = SINGLE_ITEM
    /\ Truthy(routes[route].xDb.fields) /\ Len(rows) = 2
    /\ outcome.t = "response" /\ ResponseStatus(outcome) = 200
    /\ ResponseBody(outcome) # rows[1]
    /\ HasKey(ResponseBody(outcome), ID)

\* C9: on a route whose extraction pointer is not /0, a null shaped result
\* is returned as a status-200 response with a null body, never as
\* NOT_FOUND.
C9_OtherPointersPassNull ==
    (pc = "done" /\ "notfound" \in Steps
        /\ Truthy(routes[route].xDb.returns)
        /\ routes[route].xDb.returns # SINGLE_ITEM
        /\ shapeResponse(rows, routes[route].xDb.fields, routes[route].xDb.returns).t = "null")
        => /\ outcome.t = "response" /\ ResponseStatus(outcome) = 200
           /\ ResponseBody(outcome).t = "null"

IsPrefix(a, b) == Len(a) <= Len(b) /\ SubSeq(b, 1, Len(a)) = a

\* the steps of a request that runs to its end
ExpectedSteps(usesAuth) ==
    IF usesAuth THEN HandleSteps ELSE <<"match">> \o SubSeq(HandleSteps, 3, Len(HandleSteps))

LastStep == trace[Len(trace)]

Qualifies(i) ==
    /\ ToUpperCase(routes[i].method) = ToUpperCase(req.method.v)
    /\ RegexMatch(routes[i].pattern, 0, parsePath(req.url.v), 0).ok

Qualifying == {i \in 1..Len(routes) : Qualifies(i)}

\* C11: when no compiled route matches the request's method and path,
\* handle returns null at once: no error, no call of the auth resolver, no
\* body read, no adapter operation.
C11_NoMatchReturnsNull ==
    (req # NoResult /\ Qualifying = {})
        => /\ pc = "done" /\ outcome = Null
           /\ trace = <<"match">> /\ route = 0
           /\ authContext = Null /\ context = NoResult /\ artifact = NoResult
           /\ engine.kind = "none" /\ rows = <<>>

\* a request with the method of no route on a path that a route has
C11_Witness ==
    /\ req # NoResult /\ Qualifying = {} /\ outcome = Null
    /\ \E i \in 1..Len(routes) :
          RegexMatch(routes[i].pattern, 0, parsePath(req.url.v), 0).ok

\* the template names the auth namespace, in either syntax
RECURSIVE MentionsAuth(_)
MentionsAuth(value) ==
    IF value.t = "string" THEN Includes(value.v, AUTH_PREFIX)
    ELSE IF value.t \in {"object", "array"}
    THEN \E i \in 1..Len(value.v) : MentionsAuth(value.v[i])
    ELSE FALSE

\* C12: the auth resolver is called at most once per request and only on
\* a matched route whose template names the auth namespace; on every other
\* matched route it is not called and the context's auth is null.
C12_ResolverOnlyForAuthRoutes ==
    /\ Cardinality({i \in 1..Len(trace) : trace[i] = "authenticate"}) <= 1
    /\ "authenticate" \in Steps
          => route # 0 /\ MentionsAuth(routes[route].xDb.query)
    /\ (route # 0 /\ ~MentionsAuth(routes[route].xDb.query))
          => /\ "authenticate" \notin Steps /\ pc # "auth"
             /\ authContext = Null
             /\ context # NoResult => context.auth = Null

\* the resolver was called, once, on a route that names auth and its
\* answer became the context's auth
C12_Witness ==
    /\ pc = "exec" /\ trace[2] = "authenticate"
    /\ MentionsAuth(routes[route].xDb.query) /\ Truthy(context.auth)

FirstOf(S) == CHOOSE i \in S : \A j \in S : i <= j

RECURSIVE TemplateMatches(_, _, _, _)
TemplateMatches(tpl, ti, path, pi) ==
    IF ti >= Len(tpl) THEN pi = Len(path)
    ELSE IF CharAt(tpl, ti) = "{" /\ IndexOf(tpl, <<"}">>, ti + 1) > ti + 1
    THEN \E n \in 1..SegmentRun(path, pi) :
            TemplateMatches(tpl, IndexOf(tpl, <<"}">>, ti + 1) + 1, path, pi + n)
    ELSE /\ pi < Len(path) /\ CharAt(path, pi) = CharAt(tpl, ti)
         /\ TemplateMatches(tpl, ti + 1, path, pi + 1)

\* C14: a compiled route's pattern matches a request path (query string
\* stripped) if and only if the path equals the path template character for
\* character outside {name} segments and each {name} stands for one
\* non-empty run of characters without "/".
C14_ExactPathComparison ==
    req # NoResult =>
        \A i \in 1..Len(routes) :
            RegexMatch(routes[i].pattern, 0, parsePath(req.url.v), 0).ok
                <=> TemplateMatches(routes[i].originalPath, 0, parsePath(req.url.v), 0)

AdapterNames == {adapters[i].name : i \in 1..Len(adapters)}

\* what selection must give for route r under the configured adapters:
\* the adapter's name, or <<>> for a failure
ExpectedAdapter(r) ==
    IF r.xDb.adapter.t = "string"
    THEN (IF r.xDb.adapter.v \in AdapterNames THEN r.xDb.adapter.v ELSE <<>>)
    ELSE (IF Cardinality(AdapterNames) = 1 THEN CHOOSE n \in AdapterNames : TRUE ELSE <<>>)

SelectionAsClaimed(r, selected) ==
    IF ExpectedAdapter(r) = <<>>
    THEN IsOpenApiDbError(selected) /\ ErrCode(selected) = "VALIDATION_ERROR"
    ELSE selected = Str(ExpectedAdapter(r))

\* C15: resolveAdapterName selects the adapter the route names when it is
\* configured and fails with VALIDATION_ERROR when it is not; for a route
\* that names none it selects the sole configured adapter and fails with
\* VALIDATION_ERROR when none or several are configured.  A router that
\* was built has a selectable adapter on every route, and the adapter a
\* request executes on is that one.
C15_AdapterSelection ==
    LET Selections(rs) ==
            \A i \in 1..Len(rs) :
                SelectionAsClaimed(rs[i], resolveAdapterName(rs[i].xDb.adapter, adapters, rs[i]))
    IN  /\ Selections(parseSpec(paths))
        /\ boot.t = "ready" => \A i \in 1..Len(routes) : ExpectedAdapter(routes[i]) # <<>>
        /\ "select" \in Steps =>
              \E a \in 1..Len(adapters) :
                 /\ adapters[a].name = ExpectedAdapter(routes[route])
                 /\ adapters[a].kind = SelectedKind

\* createRouter failed on a route that names an adapter that is not
\* configured
C15_Witness ==
    LET Missing(r) ==
            r.xDb.adapter.t = "string" /\ r.xDb.adapter.v \notin AdapterNames
    IN  /\ IsOpenApiDbError(boot) /\ ErrCode(boot) = "VALIDATION_ERROR"
        /\ adapters # <<>>
        /\ Missing(parseSpec(paths)[1])

\* route r passes the two boot checks of its adapter
PassesBoot(r) ==
    /\ ExpectedAdapter(r) # <<>>
    /\ \E a \in 1..Len(adapters) :
          /\ adapters[a].name = ExpectedAdapter(r)
          /\ validateQuery(adapters[a].kind, r.xDb.query).valid

\* C16: createRouter returns a Router only if on every compiled route
\* adapter selection succeeds and the selected adapter's validateQuery
\* accepts the template, each route validated once; if a route fails
\* either check createRouter fails with VALIDATION_ERROR and no request is
\* handled.
C16_BootValidation ==
    LET SomeFails(rs) == \E i \in 1..Len(rs) : ~PassesBoot(rs[i])
    IN  /\ boot.t = "ready" =>
              /\ \A i \in 1..Len(routes) : PassesBoot(routes[i])
              /\ boot.validated = [i \in 1..Len(routes) |-> i]
        /\ (boot.t # "config" /\ SomeFails(parseSpec(paths)))
              => /\ IsOpenApiDbError(boot) /\ ErrCode(boot) = "VALIDATION_ERROR"
                 /\ pc = "idle" /\ req = NoResult /\ trace = <<>>

\* createRouter failed on a template that the sole adapter rejects
C16_Witness ==
    LET Rejected(rs) ==
            \E i \in 1..Len(rs) : ExpectedAdapter(rs[i]) # <<>> /\ ~PassesBoot(rs[i])
    IN  /\ IsOpenApiDbError(boot) /\ ErrCode(boot) = "VALIDATION_ERROR"
        /\ Len(adapters) = 1
        /\ Rejected(parseSpec(paths))

-----------------------------------------------------------------------------
(* Type preservation of the document adapter's interpolation               *)

\* the string form of a value embedded in a larger string
EmbeddedText(value) ==
    IF IsNullish(value) THEN <<>>
    ELSE IF value.t \in {"string", "number"} THEN value.v
    ELSE ToText(value)

\* the text of a leaf from its i-th reference on, each reference replaced by
\* the string form of its value
RECURSIVE EmbeddedFrom(_, _, _, _)
EmbeddedFrom(tpl, refs, i, ctx) ==
    IF i > Len(refs) THEN <<>>
    ELSE EmbeddedText(EvaluateRef(refs[i], ctx))
         \o Slice(tpl, refs[i].end,
                  IF i = Len(refs) THEN Len(tpl) ELSE refs[i + 1].start)
         \o EmbeddedFrom(tpl, refs, i + 1, ctx)

IsWholeLeaf(tpl, refs) ==
    Len(refs) = 1 /\ refs[1].start = 0 /\ refs[1].end = Len(tpl)

PreservedLeaf(tpl, ctx) ==
    LET Parsed(refs) ==
            IF refs = <<>> THEN Str(tpl)
            ELSE IF IsWholeLeaf(tpl, refs) THEN EvaluateRef(refs[1], ctx)
            ELSE Str(Slice(tpl, 0, refs[1].start) \o EmbeddedFrom(tpl, refs, 1, ctx))
    IN  Parsed(parseTemplate(tpl))

RECURSIVE PreservedValue(_, _)
PreservedValue(value, ctx) ==
    IF value.t = "string" THEN PreservedLeaf(value.v, ctx)
    ELSE IF value.t \in {"array", "object"}
    THEN [value EXCEPT !.v = [i \in 1..Len(value.v) |-> PreservedValue(value.v[i], ctx)]]
    ELSE value

PreservedQuery(query, ctx) ==
    LET Built(interpolated) ==
            IF HasKey(interpolated, PIPELINE) THEN buildPipelineQuery(interpolated)
            ELSE buildOperationQuery(interpolated)
    IN  Built(PreservedValue(query, ctx))

\* C17: the document adapter interpolates every string leaf of the query at
\* every nesting level; a leaf that is exactly one expression becomes the
\* value of the expression with its native type, and a leaf in which
\* expressions are embedded in a larger string becomes a string with each
\* expression replaced by the string form of its value.
C17_TypePreservation ==
    phase = "done" => mgA = PreservedQuery(mq, ctxA)

\* find with options: a number, a date, null, an array and an embedded
\* string sit side by side in the interpolated options
C17_Witness ==
    /\ phase = "done" /\ IsArtifact(mgA) /\ ctxA = CtxOne
    /\ GetProp(mq, OPERATION) = Str(OpFind) /\ HasKey(mq, OPTIONS)
    /\ GetProp(GetProp(mq, OPTIONS), PW) = Str(LeafMixed)
    /\ mgA.args[2] = Obj(<<PW>> \o OptionKeys,
                         <<Str(<<"u", "-", "X">>),
                           Arr(<<Str(<<"X">>), Str(<<"Y">>)>>), Num(<<"2", "0">>),
                           DateNow, Null, Str(<<"t", "-", "-", "X">>), Num(<<"5">>)>>)

-----------------------------------------------------------------------------
(* Validation of the document adapter's query template                     *)

\* the sub-fields an operation must carry as objects
RequiredObjects(operation) ==
    CASE operation = OpInsertOne -> {DOCUMENT}
      [] operation \in {OpUpdateOne, OpFindOneAndUpdate} -> {FILTER, UPDATE}
      [] operation = OpReplaceOne -> {FILTER, REPLACEMENT}
      [] operation \in {OpDeleteOne, OpFindOneAndDelete} -> {FILTER}
      [] OTHER -> {}

CarriesRequired(query, operation) ==
    /\ \A f \in RequiredObjects(operation) :
          HasKey(query, f) /\ GetProp(query, f).t \in {"object", "array", "date"}
    /\ operation = OpBulkWrite => GetProp(query, OPERATIONS).t = "array"

ExactlyOneOf(query) ==
    HasKey(query, OPERATION) # HasKey(query, PIPELINE)

ValidAsClaimed(query) ==
    /\ query.t = "object"
    /\ GetProp(query, COLLECTION).t = "string" /\ GetProp(query, COLLECTION).v # <<>>
    /\ ExactlyOneOf(query)
    /\ HasKey(query, PIPELINE) => GetProp(query, PIPELINE).t = "array"
    /\ HasKey(query, OPERATION) =>
          /\ GetProp(query, OPERATION).t = "string"
          /\ GetProp(query, OPERATION).v \in SUPPORTED_OPERATIONS
          /\ CarriesRequired(query, GetProp(query, OPERATION).v)

\* C18: validateQuery of the document adapter returns valid if and only if
\* the template is a non-null object with a non-empty string collection and
\* exactly one of operation and pipeline, the pipeline an array, the
\* operation a supported one that carries its required sub-fields; every
\* other template is rejected with a reason.
C18_ValidateQueryIff ==
    /\ MongoValidateQuery(mq).valid <=> ValidAsClaimed(mq)
    /\ ~MongoValidateQuery(mq).valid => MongoValidateQuery(mq).error # ""

-----------------------------------------------------------------------------
(* Template helpers: default() and the comma split of query values         *)

\* what an argument text of default() stands for
ArgValue(x, ctx) ==
    CASE x = <<"'", "'">> -> Str(<<>>)
      [] x = <<"'", "a", "'">> -> Str(<<"a">>)
      [] x = <<"'", "a", ",", "b", "'">> -> Str(<<"a", ",", "b">>)
      [] x = <<"0">> -> Num(<<"0">>)
      [] x = <<"7">> -> Num(<<"7">>)
      [] x = <<"n", "u", "l", "l">> -> Null
      [] x = <<"n", "o", "w", "(", ")">> -> DateNow
      [] x = <<"u", "u", "i", "d", "(", ")">> -> Uuid
      [] x = <<"n", "o", "p", "e", "(", ")">> -> OpenApiDbError("UNKNOWN_FUNCTION", <<"n", "o", "p", "e">>,
                                   DefaultStatus, Undefined)
      [] x = <<"'", "a", ")", "b", "'">> -> Str(<<"a", ")", "b">>)
      [] x = <<"'", "a", "\\", "'", "b", "'">> -> Str(<<"a", "'", "b">>)
      [] x = <<"'", "f", "(", ")", "'">> -> Str(<<"f", "(", ")">>)
      [] x = NestedDefault -> Num(<<"7">>)
      [] OTHER -> resolveVariable(x, ctx)

DefaultAsClaimed(x, y, ctx) ==
    LET Chosen(X, Y) == IF IsNullish(X) THEN Y ELSE X
    IN  Chosen(ArgValue(x, ctx), ArgValue(y, ctx))

\* C19: evaluateFunction on default(X, Y) returns Y if and only if X evaluates
\* to null or undefined; for every other value of X, 0, false and the empty
\* string included, it returns X unchanged.
C19_DefaultOnlyForNullish ==
    (phase = "done" /\ helperOutput.t = "evaluateFunction") =>
        \A x \in ArgTexts, y \in ArgTexts :
            (/\ helperInput = DefaultCall(x, y)
             /\ ~IsThrow(ArgValue(x, ctxA)) /\ ~IsThrow(ArgValue(y, ctxA))) =>
                helperOutput.value = DefaultAsClaimed(x, y, ctxA)

\* default(body.flag, 'a') on a body whose flag is false returned false
C19_Witness ==
    /\ phase = "done" /\ helperOutput.t = "evaluateFunction"
    /\ helperInput = DefaultCall(<<"b", "o", "d", "y", ".", "f", "l", "a", "g">>, <<"'", "a", "'">>)
    /\ GetProp(ctxA.body, FLAG) = False
    /\ helperOutput.value = False

\* the items joined by commas
RECURSIVE JoinCommas(_)
JoinCommas(items) ==
    IF items = <<>> THEN <<>>
    ELSE IF Len(items) = 1 THEN items[1].v
    ELSE items[1].v \o <<",">> \o JoinCommas(Tail(items))

\* value is the array of the comma-separated parts of the string raw
IsCommaParts(value, raw) ==
    /\ value.t = "array" /\ Len(value.v) >= 2
    /\ \A i \in 1..Len(value.v) :
          value.v[i].t = "string" /\ ~Includes(value.v[i].v, <<",">>)
    /\ JoinCommas(value.v) = raw.v

Namespace(ctx, source) ==
    CASE source = PATH -> ctx.path
      [] source = QUERY -> ctx.query
      [] source = BODY -> ctx.body
      [] source = AUTH -> ctx.auth

ResolvedAsClaimed(value, source, raw) ==
    IF source = QUERY /\ raw.t = "string" /\ Includes(raw.v, <<",">>)
    THEN IsCommaParts(value, raw)
    ELSE value = raw

\* C20: resolveVariable on the query namespace returns the array of the
\* comma-separated parts when the fully resolved value is a string with at
\* least one comma, and the string unchanged when it has none; values
\* resolved from the path, body and auth namespaces are never split.
C20_QueryCommaSplit ==
    (phase = "done" /\ helperOutput.t = "resolveVariable") =>
        LET Parts(parts) ==
                parts[1] \in {PATH, QUERY, BODY, AUTH} =>
                    ResolvedAsClaimed(helperOutput.value, parts[1],
                                      Navigate(Namespace(ctxA, parts[1]), Tail(parts)))
        IN  Parts(Split(Trim(helperInput), "."))

\* query.q on a request with ?q=X,Y,Z resolved to the three parts
C20_Witness ==
    /\ phase = "done" /\ helperOutput.t = "resolveVariable"
    /\ helperInput = <<"q", "u", "e", "r", "y", ".", "q">>
    /\ GetProp(ctxA.query, QKEY) = Str(<<"X", ",", "Y", ",", "Z">>)
    /\ helperOutput.value = Arr(<<Str(<<"X">>), Str(<<"Y">>), Str(<<"Z">>)>>)

-----------------------------------------------------------------------------
(* parseTemplate: the references of a template                             *)

\* position of the quote that ends the literal whose text starts at pos,
\* a quote after a backslash not ending it; the length of t when none does
RECURSIVE LiteralEnd(_, _)
LiteralEnd(t, pos) ==
    IF pos >= Len(t) THEN Len(t)
    ELSE IF CharAt(t, pos) = "'" THEN pos
    ELSE IF CharAt(t, pos) = "\\" /\ pos + 1 < Len(t) THEN LiteralEnd(t, pos + 2)
    ELSE LiteralEnd(t, pos + 1)

\* position of the first close delimiter at nesting depth 1 outside every
\* literal, the depth rising at each open delimiter; -1 when there is none
RECURSIVE CloseAtDepthOne(_, _, _)
CloseAtDepthOne(t, pos, depth) ==
    IF pos >= Len(t) THEN -1
    ELSE IF StartsWithAt(t, CLOSE_DELIM, pos)
         THEN IF depth = 1 THEN pos
              ELSE CloseAtDepthOne(t, pos + Len(CLOSE_DELIM), depth - 1)
    ELSE IF StartsWithAt(t, OPEN_DELIM, pos)
         THEN CloseAtDepthOne(t, pos + Len(OPEN_DELIM), depth + 1)
    ELSE IF CharAt(t, pos) = "'"
         THEN CloseAtDepthOne(t, LiteralEnd(t, pos + 1) + 1, depth)
    ELSE CloseAtDepthOne(t, pos + 1, depth)

\* the spans <<start, end>> of the top-level references from pos on
RECURSIVE SpansAsClaimed(_, _)
SpansAsClaimed(t, pos) ==
    LET Closed(openPos, closePos) ==
            IF closePos = -1 THEN <<>>
            ELSE <<<<openPos, closePos + Len(CLOSE_DELIM)>>>>
                 \o SpansAsClaimed(t, closePos + Len(CLOSE_DELIM))
        Opened(openPos) ==
            IF openPos = -1 THEN <<>>
            ELSE Closed(openPos, CloseAtDepthOne(t, openPos + Len(OPEN_DELIM), 1))
    IN  Opened(IndexOf(t, OPEN_DELIM, pos))

\* every reference is cut out of the template at its own offsets
RefsWellFormed(t, refs) ==
    /\ \A i \in 1..Len(refs) :
          /\ 0 <= refs[i].start /\ refs[i].end <= Len(t)
          /\ refs[i].match = Slice(t, refs[i].start, refs[i].end)
          /\ StartsWithAt(refs[i].match, OPEN_DELIM, 0)
          /\ EndsWith(refs[i].match, CLOSE_DELIM)
          /\ Len(refs[i].match) >= Len(OPEN_DELIM) + Len(CLOSE_DELIM)
          /\ refs[i].inner = Trim(Slice(t, refs[i].start + Len(OPEN_DELIM),
                                        refs[i].end - Len(CLOSE_DELIM)))
    /\ \A i \in 1..(Len(refs) - 1) : refs[i].end <= refs[i + 1].start

-----------------------------------------------------------------------------
(* Unterminated expressions                                                *)

\* offset of the open delimiter that no close delimiter matches, -1 when
\* every open delimiter of the template is matched
UnterminatedAt(t) ==
    LET After(spans) ==
            IndexOf(t, OPEN_DELIM, IF spans = <<>> THEN 0 ELSE spans[Len(spans)][2])
    IN  After(SpansAsClaimed(t, 0))

\* the artifact is the artifact of the text before offset u, followed by the
\* template text from u on
TailVerbatim(made, before, t, u) ==
    /\ IsArtifact(before)
    /\ made.sql = before.sql \o SliceFrom(t, u)
    /\ made.values = before.values

UnterminatedAsClaimed(t, u) ==
    /\ parseTemplate(t) = parseTemplate(Slice(t, 0, u))
    /\ \A i \in 1..Len(parseTemplate(t)) : parseTemplate(t)[i].end <= u
    /\ (phase = "done" /\ IsArtifact(pgA)) =>
          TailVerbatim(pgA, PgInterpolate(Slice(t, 0, u), ctxA), t, u)
    /\ (phase = "done" /\ IsArtifact(myA)) =>
          TailVerbatim(myA, MysqlInterpolate(Slice(t, 0, u), ctxA), t, u)

\* C22: when an open delimiter has no matching close delimiter, parseTemplate
\* reports no reference for it and none for the text after it, the references
\* before it are still reported, and the flat-query adapters leave the
\* template from that open delimiter to the end verbatim in the query text,
\* with no placeholder for it; a template that is empty or has no delimiter
\* yields no reference.
C22_UnterminatedIsPlainText ==
    LET Open(u) == u # -1 => UnterminatedAsClaimed(template, u)
    IN  /\ ~Includes(template, OPEN_DELIM) => parseTemplate(template) = <<>>
        /\ Open(UnterminatedAt(template))

\* a reference followed by an expression that is never closed
C22_Witness ==
    /\ phase = "done" /\ IsArtifact(pgA) /\ IsArtifact(myA)
    /\ pieces = <<RefPathId, OPEN_DELIM, <<"p", "a", "t", "h", ".", "i", "d">>>>
    /\ pgA.sql = <<"$", "1", "$", "{", "{", "p", "a", "t", "h", ".", "i", "d">>
    /\ myA.sql = <<"?", "$", "{", "{", "p", "a", "t", "h", ".", "i", "d">>
    /\ Len(pgA.values) = 1

-----------------------------------------------------------------------------
(* evaluateFunction: argument splitting and evaluation order                *)

\* what default(x, y) gives when its argument list is the two texts x and y,
\* each evaluated, in order, before default is applied
CallAsClaimed(x, y, ctx) ==
    LET Applied(X, Y) ==
            IF IsThrow(X) THEN X
            ELSE IF IsThrow(Y) THEN Y
            ELSE IF IsNullish(X) THEN Y ELSE X
    IN  Applied(ArgValue(x, ctx), ArgValue(y, ctx))

\* C23: evaluateFunction splits its argument list only at commas outside
\* nested parentheses and outside single-quoted literals (a quote after a
\* backslash does not end a literal), and evaluates every argument, nested
\* calls recursively, before it applies the named function.
C23_ArgumentSplitting ==
    (phase = "done" /\ helperOutput.t = "evaluateFunction") =>
        \A x \in ArgTexts \cup {NestedDefault}, y \in ArgTexts :
            helperInput = DefaultCall(x, y) =>
                helperOutput.value = CallAsClaimed(x, y, ctxA)

\* default(default(null,7), 'a,b') gave the 7 of the nested call
C23_Witness ==
    /\ phase = "done" /\ helperOutput.t = "evaluateFunction"
    /\ helperInput = DefaultCall(NestedDefault, <<"'", "a", ",", "b", "'">>)
    /\ helperOutput.value = Num(<<"7">>)

-----------------------------------------------------------------------------
(* evaluateFunction: unknown functions                                     *)

BuiltIns == {<<"d", "e", "f", "a", "u", "l", "t">>, <<"n", "o", "w">>, <<"u", "u", "i", "d">>}

\* TRUE iff position i of text lies inside a single-quoted literal
InsideLiteral(text, i) ==
    Cardinality({j \in 0..(i - 1) :
                   CharAt(text, j) = "'" /\ CharAt(text, j - 1) # "\\"}) % 2 = 1

\* the identifier written just before position i
NameBefore(text, i) ==
    LET From(a) == Slice(text, a, i)
    IN  From(CHOOSE a \in 0..i :
                /\ \A k \in a..(i - 1) : IsWordChar(CharAt(text, k))
                /\ a = 0 \/ ~IsWordChar(CharAt(text, a - 1)))

\* the names of the functions called in text that are not built in
UnknownNames(text) ==
    {NameBefore(text, i) : i \in {j \in 0..(Len(text) - 1) :
                                    /\ CharAt(text, j) = "("
                                    /\ ~InsideLiteral(text, j)
                                    /\ NameBefore(text, j) \notin BuiltIns}}

IsUnknownFunction(value) ==
    IsOpenApiDbError(value) /\ ErrCode(value) = "UNKNOWN_FUNCTION"

\* C24: evaluateFunction called with a function name outside default, now
\* and uuid fails with an OpenApiDbError of code UNKNOWN_FUNCTION whose
\* message names that identifier, also when the unknown call is a nested
\* argument of a built-in function; a call of the three built-in functions
\* never fails with UNKNOWN_FUNCTION.
C24_UnknownFunction ==
    (phase = "done" /\ helperOutput.t = "evaluateFunction"
     /\ IsFunction(Trim(helperInput))) =>
        LET Called(unknown) ==
                IF unknown = {} THEN ~IsUnknownFunction(helperOutput.value)
                ELSE /\ IsUnknownFunction(helperOutput.value)
                     /\ ErrMessage(helperOutput.value) \in unknown
        IN  Called(UnknownNames(helperInput))

\* default(7, nope()): the unknown call is an argument default does not need
C24_Witness ==
    /\ phase = "done" /\ helperOutput.t = "evaluateFunction"
    /\ helperInput = DefaultCall(<<"7">>, <<"n", "o", "p", "e", "(", ")">>)
    /\ IsUnknownFunction(helperOutput.value)
    /\ ErrMessage(helperOutput.value) = <<"n", "o", "p", "e">>

-----------------------------------------------------------------------------
(* resolveVariable: missing values                                         *)

\* the value reached after the first k segments of path, read from root
RECURSIVE PrefixValue(_, _, _)
PrefixValue(root, path, k) ==
    IF k = 0 THEN root ELSE GetProp(PrefixValue(root, path, k - 1), path[k])

\* some value before the last segment is null or undefined
ChainBroken(root, path) ==
    \E k \in 0..(Len(path) - 1) : IsNullish(PrefixValue(root, path, k))

FinalMissing(root, path) ==
    /\ path # <<>> /\ ~ChainBroken(root, path)
    /\ ~HasKey(PrefixValue(root, path, Len(path) - 1), path[Len(path)])

\* C25: resolveVariable never fails: it returns undefined when a value on
\* the property chain before the last segment is null or undefined (auth
\* being null included), when the final property is missing and when the
\* first segment is none of path, query, body and auth; body alone returns
\* the entire body.
C25_ResolveNeverFails ==
    (phase = "done" /\ helperOutput.t = "resolveVariable") =>
        LET Parts(source, path) ==
                /\ source \notin {PATH, QUERY, BODY, AUTH} =>
                      helperOutput.value = Undefined
                /\ source \in {PATH, QUERY, BODY, AUTH} =>
                      /\ ChainBroken(Namespace(ctxA, source), path) =>
                            helperOutput.value = Undefined
                      /\ FinalMissing(Namespace(ctxA, source), path) =>
                            helperOutput.value = Undefined
                /\ (source = BODY /\ path = <<>>) => helperOutput.value = ctxA.body
            Split1(parts) == Parts(parts[1], Tail(parts))
        IN  /\ ~IsThrow(helperOutput.value)
            /\ Split1(Split(Trim(helperInput), "."))

\* auth.tenantId on a request whose auth context is null
C25_Witness ==
    /\ phase = "done" /\ helperOutput.t = "resolveVariable"
    /\ helperInput = AUTH \o <<".">> \o TENANT
    /\ ctxA.auth = Null
    /\ helperOutput.value = Undefined

FIRST_ID == Str(<<"/", "0", "/", "i", "d">>)

\* the names under which a column of a row is to appear: the api names the
\* field map declares for it, or its own name when the map has none
Targets(fields, column) ==
    IF \E a \in 1..Len(fields.k) : fields.v[a] = Str(column)
    THEN {fields.k[a] : a \in {b \in 1..Len(fields.k) : fields.v[b] = Str(column)}}
    ELSE {column}

\* no two columns of the row are to appear under one name
NoCollision(row, fields) ==
    \A i, j \in 1..Len(row.k) :
        i # j => Targets(fields, row.k[i]) \cap Targets(fields, row.k[j]) = {}

\* out holds every column of row under its target name with its value, and
\* nothing else
MappedAsClaimed(row, fields, out) ==
    /\ out.t = "object"
    /\ \A i \in 1..Len(row.k) :
          \A name \in Targets(fields, row.k[i]) :
              HasKey(out, name) /\ GetProp(out, name) = row.v[i]
    /\ \A o \in 1..Len(out.k) :
          \E i \in 1..Len(row.k) : out.k[o] \in Targets(fields, row.k[i])

\* the response of a route with a field map is what the claim describes,
\* for every row (strict) or for the rows without a collision
ShapedAsClaimed(fields, returns, strict) ==
    LET Covered(row) == strict \/ NoCollision(row, fields)
    IN  CASE returns.t = "undefined" ->
                /\ outcome.t = "response"
                /\ ResponseBody(outcome).t = "array"
                /\ Len(ResponseBody(outcome).v) = Len(rows)
                /\ \A r \in 1..Len(rows) :
                      Covered(rows[r])
                          => MappedAsClaimed(rows[r], fields, ResponseBody(outcome).v[r])
          [] returns = SINGLE_ITEM ->
                (rows # <<>> /\ Covered(rows[1]))
                    => /\ outcome.t = "response"
                       /\ MappedAsClaimed(rows[1], fields, ResponseBody(outcome))
          [] returns = FIRST_ID ->
                (rows # <<>> /\ Covered(rows[1]))
                    => /\ outcome.t = "response"
                       /\ \A i \in 1..Len(rows[1].k) :
                             ID \in Targets(fields, rows[1].k[i])
                                 => ResponseBody(outcome) = rows[1].v[i]
          [] OTHER -> TRUE

SuspendedAlone(request) ==
    LET AfterAuth(f0, f1) ==
            {f0, f1,
             IF f1.pc = "body"
             THEN HandleAfterBody(f1, routes, adapters, request, parseBody(request))
             ELSE f1}
        AfterStart(f0) ==
            AfterAuth(f0, IF f0.pc = "auth"
                          THEN HandleAfterAuth(f0, request.credentials) ELSE f0)
    IN  AfterStart(HandleToAwait(FreshFrame, routes, auth, request))

\* the frame in which handle, called alone with the request and answered by
\* the engine with reply, ends
HandledAlone(request, reply) ==
    LET Executed(f) ==
            IF f.pc = "exec"
            THEN HandleAfterExecute(f, routes, execute(KindFor(f), f.artifact, reply))
            ELSE f
        Bodied(f) ==
            Executed(IF f.pc = "body"
                     THEN HandleAfterBody(f, routes, adapters, request, parseBody(request))
                     ELSE f)
        Authed(f) ==
            Bodied(IF f.pc = "auth" THEN HandleAfterAuth(f, request.credentials) ELSE f)
    IN  Authed(HandleToAwait(FreshFrame, routes, auth, request))

GroupCount(pattern) == Cardinality({i \in 1..Len(pattern) : pattern[i] = "("})

\* the names between braces of a path template, in the order written
RECURSIVE DeclaredNames(_, _)
DeclaredNames(tpl, i) ==
    IF i >= Len(tpl) THEN <<>>
    ELSE IF CharAt(tpl, i) = "{" /\ IndexOf(tpl, <<"}">>, i + 1) > i + 1
    THEN <<Slice(tpl, i + 1, IndexOf(tpl, <<"}">>, i + 1))>>
         \o DeclaredNames(tpl, IndexOf(tpl, <<"}">>, i + 1) + 1)
    ELSE DeclaredNames(tpl, i + 1)

\* the runs of characters the {name} segments of a template stand for in a
\* path that agrees with the template elsewhere, the longest run first
RECURSIVE Standing(_, _, _, _)
Standing(tpl, ti, path, pi) ==
    LET Longest(close, fits) ==
            IF fits = {} THEN [ok |-> FALSE, caps |-> <<>>]
            ELSE [ok |-> TRUE,
                  caps |-> <<Slice(path, pi, pi + FirstOf({0 - n : n \in fits}) * (0 - 1))>>
                           \o Standing(tpl, close + 1, path,
                                       pi + FirstOf({0 - n : n \in fits}) * (0 - 1)).caps]
        Segment(close) ==
            Longest(close, {n \in 1..SegmentRun(path, pi) :
                               Standing(tpl, close + 1, path, pi + n).ok})
        Literal(rest) ==
            IF pi < Len(path) /\ CharAt(path, pi) = CharAt(tpl, ti) THEN rest
            ELSE [ok |-> FALSE, caps |-> <<>>]
    IN  IF ti >= Len(tpl) THEN [ok |-> pi = Len(path), caps |-> <<>>]
        ELSE IF CharAt(tpl, ti) = "{" /\ IndexOf(tpl, <<"}">>, ti + 1) > ti + 1
        THEN Segment(IndexOf(tpl, <<"}">>, ti + 1))
        ELSE Literal(Standing(tpl, ti + 1, path, pi + 1))

\* pathParams holds one decoded value for each capture name
OneValuePerName(r, path, pathParams) ==
    /\ pathParams.t = "object" /\ pathParams.k = r.paramNames
    /\ \A n \in 1..Len(r.paramNames) : pathParams.v[n].t = "string"
    /\ Standing(r.originalPath, 0, path, 0).ok
          => \A n \in 1..Len(r.paramNames) :
                pathParams.v[n] = decodeURIComponent(Standing(r.originalPath, 0, path, 0).caps[n])

\* C28: every compiled route has as many capture names as its path pattern
\* has capture groups, the names are those of the path template in the
\* order declared, and every successful match yields exactly one
\* percent-decoded value for each capture name.
C28_CaptureNames ==
    /\ \A i \in 1..Len(routes) :
          /\ Len(routes[i].paramNames) = GroupCount(routes[i].pattern)
          /\ routes[i].paramNames = DeclaredNames(routes[i].originalPath, 0)
    /\ (req # NoResult /\ route # 0)
          => OneValuePerName(routes[route], parsePath(req.url.v), matched)

ConfigurationFailures == {"AUTH_RESOLVER_MISSING", "VALIDATION_ERROR"}

\* C29: on a Router that createRouter returned, with routes, adapters and
\* resolver as they were at boot, no request makes handle fail with
\* AUTH_RESOLVER_MISSING or VALIDATION_ERROR.
C29_NoConfigurationFailureAtRequestTime ==
    (pc = "done" /\ IsThrow(outcome))
        => ~(IsOpenApiDbError(outcome) /\ ErrCode(outcome) \in ConfigurationFailures)

\* a request on a route that uses auth passes the request-time checks of
\* the resolver and of the adapter name and is answered
C29_Witness ==
    /\ pc = "done" /\ outcome.t = "response"
    /\ routes[route].usesAuth /\ auth
    /\ "authenticate" \in Steps /\ "select" \in Steps

\* the Context that handle builds from the request
BuiltContext ==
    [path |-> matched,
     query |-> parseQuery(req.url.v, routes[route].parameters),
     body |-> parseBody(req),
     auth |-> authContext]

\* the values of a flat artifact are what its variable references resolve
\* to against the context now
ResolvesAgain(query, values, ctx) ==
    query.t = "string"
        => \A n \in 1..Len(parseTemplate(query.v)) :
              (n <= Len(values) /\ ~IsFunction(parseTemplate(query.v)[n].inner))
                  => values[n] = resolveVariable(parseTemplate(query.v)[n].inner, ctx)

=============================================================================
